---- MODULE Spec2Model ----
(***************************************************************************)
(* SF10 grade automation: name normalisation, the single-student template  *)
(* populator, the single-workbook generator, the multi-quarter merge       *)
(* engine and the SF10 structure detector.                                 *)
(*                                                                         *)
(* Text is a sequence of one-character strings.  A cell value is a record  *)
(* [k, s, n]: k = "none" (empty cell), "str" (text s) or "num" (number n). *)
(***************************************************************************)
EXTENDS Integers, Sequences, FiniteSets, TLC

VARIABLES
    raw,        \* the raw name handed to _normalize_name
    norm,       \* _normalize_name(raw)
    renorm,     \* _normalize_name(norm)
    npc,        \* position of the normaliser run
    template,   \* the sheet of the template file at sf10_template_path
    learners_profile_data, \* SF10Generator.learners_profile_data
    student,    \* the record handed to generate_sf10_for_student
    quarter,    \* its quarter argument
    outfile,    \* the sheet of the file saved at output_path, NoFile before
    gpc,        \* position of the generate_sf10_for_student call
    grading_files, \* the quarters of the (file, quarter) pairs still to merge
    existing_sf10, \* <<workbook>> at existing_sf10_path, <<>> if none
    base_wb,    \* the workbook being merged into, in memory
    left,       \* rows of the current grading file still to merge
    merge_student, \* <<student>>: the row the student loop is at, else <<>>
    warned,     \* the names printed in "Warning: Could not find sheet for ..."
    again,      \* <<[files, students]>> for an upload that is repeated, else <<>>
    first_output, \* the output of the first of two identical uploads
    output,     \* <<workbook>> at output_path, <<>> before it is written
    mpc,        \* position of the merge_quarters_into_sf10 call
    probe,      \* the file handed to is_sf10_file: [readable, wb]
    origin,     \* where that file comes from
    verdict,    \* what is_sf10_file returned: "sf10", "other", "none" before
    grid,       \* the summary sheet as pd.read_excel(header=None) gives it
    students,   \* the list read_student_grades returned
    rpc,        \* position of the read_student_grades call
    batch,      \* the students generate_all_sf10s read from the grading sheet
    out_dir,    \* the files of output_dir: file name |-> saved sheet
    generated_files, \* the list generate_all_sf10s returns
    failed,     \* the names printed in "ERROR generating SF10 for ..."
    apc,        \* position of the generate_all_sf10s call
    book_students, \* the students read for the single workbook
    tmpl_media, \* the media parts of the template archive
    logo_files, \* the logo files that exist under assets/img
    book,       \* the single workbook at output_path: <<>> or <<workbook>>
    out_media,  \* the media parts of the archive at output_path
    bpc,        \* position of the generate_single_workbook_all_students call
    filename,   \* the file name given to identify_quarter_from_filename
    identified, \* what identify_quarter_from_filename returned
    qpc,        \* position of the identify_quarter_from_filename call
    uploads,    \* request.files: the uploaded files, in order
    upload_folder, \* the names of the files saved in UPLOAD_FOLDER
    merge_calls, \* the calls of merge_quarters_into_sf10 made by upload_files
    response,   \* what upload_files answered
    upc,        \* position of the upload_files call
    disk,       \* the files on disk: path |-> workbook
    call,       \* the operation that is run on the files, with its arguments
    fpc,        \* position of that operation
    inflight,   \* the requests upload_files is handling, one record each
    folder,     \* the files of UPLOAD_FOLDER: path |-> the request that wrote it last
    clock,      \* datetime.now(), in seconds
    roster_name, \* the name of a student row of the grading sheet
    sheet_title, \* the title of the sheet made for that student
    found,      \* whether a merge step for the same name finds a sheet
    tpc         \* position of the sheet creation and the search

nameVars == <<raw, norm, renorm, npc>>
genVars  == <<learners_profile_data, student, quarter, outfile, gpc>>
mergeVars ==
    <<grading_files, existing_sf10, base_wb, left, merge_student, warned, again,
      first_output, output, mpc>>
detVars == <<probe, origin, verdict>>
parseVars == <<grid, students, rpc>>
allVars == <<batch, out_dir, generated_files, failed, apc>>
bookVars == <<book_students, tmpl_media, logo_files, book, out_media, bpc>>
quarterVars == <<filename, identified, qpc>>
uploadVars == <<uploads, upload_folder, merge_calls, response, upc>>
fileVars == <<disk, call, fpc>>
requestVars == <<inflight, folder, clock>>
titleVars == <<roster_name, sheet_title, found, tpc>>
vars ==
    <<template, nameVars, genVars, mergeVars, detVars, parseVars, allVars, bookVars,
      quarterVars, uploadVars, fileVars, requestVars, titleVars>>

----------------------------------------------------------------------------
(* Bounds *)

MaxLen == 5          \* longest raw name drawn for the normaliser
MaxNameLen == 4      \* longest student name drawn for the populator
MaxStudents == 2     \* most student rows in one grading file
MaxPairs == 2        \* most (file, quarter) pairs in one upload

----------------------------------------------------------------------------
(* Python str primitives *)

NameChars == {"a", "B", " ", "\t", ","}

IsSpace(c) == c \in {" ", "\t"}

\* str.upper(), per character
UpperChar(c) == IF c = "a" THEN "A" ELSE IF c = "b" THEN "B" ELSE c

Upper(s) == [i \in 1..Len(s) |-> UpperChar(s[i])]

\* str.lower(), per character
LowerChar(c) ==
    CASE c = "A" -> "a" [] c = "B" -> "b" [] c = "L" -> "l" [] c = "M" -> "m"
      [] c = "R" -> "r" [] c = "T" -> "t" [] c = "H" -> "h" [] c = "D" -> "d"
      [] c = "F" -> "f" [] c = "I" -> "i" [] c = "N" -> "n" [] c = "S" -> "s"
      [] OTHER -> c

Lower(s) == [i \in 1..Len(s) |-> LowerChar(s[i])]

IsLowerChar(c) == c \in {"a", "b", "x", "y", "z"}

RECURSIVE LStrip(_)
LStrip(s) == IF s # <<>> /\ IsSpace(Head(s)) THEN LStrip(Tail(s)) ELSE s

RECURSIVE RStrip(_)
RStrip(s) ==
    IF s # <<>> /\ IsSpace(s[Len(s)]) THEN RStrip(SubSeq(s, 1, Len(s) - 1)) ELSE s

\* str.strip()
Strip(s) == RStrip(LStrip(s))

\* does text p start at position i of s?
MatchAt(s, p, i) ==
    /\ i + Len(p) - 1 <= Len(s)
    /\ \A j \in 1..Len(p) : s[i + j - 1] = p[j]

\* the "in" operator on str
Contains(s, p) == \E i \in 1..(Len(s) + 1) : MatchAt(s, p, i)

\* str.replace(old, new): left to right, non-overlapping (old is non-empty)
RECURSIVE Replace(_, _, _)
Replace(s, old, new) ==
    IF s = <<>> THEN <<>>
    ELSE IF MatchAt(s, old, 1)
         THEN new \o Replace(SubSeq(s, Len(old) + 1, Len(s)), old, new)
         ELSE <<Head(s)>> \o Replace(Tail(s), old, new)

\* str.split() with no argument: the maximal runs of non-whitespace
RECURSIVE SplitWs(_, _)
SplitWs(s, cur) ==
    IF s = <<>> THEN (IF cur = <<>> THEN <<>> ELSE <<cur>>)
    ELSE IF IsSpace(Head(s))
         THEN (IF cur = <<>> THEN <<>> ELSE <<cur>>) \o SplitWs(Tail(s), <<>>)
         ELSE SplitWs(Tail(s), Append(cur, Head(s)))

\* sep.join(parts)
RECURSIVE Join(_, _)
Join(parts, sep) ==
    IF parts = <<>> THEN <<>>
    ELSE IF Len(parts) = 1 THEN parts[1]
    ELSE parts[1] \o sep \o Join(Tail(parts), sep)

\* str.split(","): always at least one part
RECURSIVE SplitComma(_, _)
SplitComma(s, cur) ==
    IF s = <<>> THEN <<cur>>
    ELSE IF Head(s) = ","
         THEN <<cur>> \o SplitComma(Tail(s), <<>>)
         ELSE SplitComma(Tail(s), Append(cur, Head(s)))

----------------------------------------------------------------------------
(* SF10Generator._normalize_name *)

\* _normalize_name without line 73: the spaces around commas are kept
Mutant_normalize_name_KeepsCommaSpaces(name) ==
    LET n1 == Join(SplitWs(name, <<>>), <<" ">>)
        n3 == Replace(n1, <<",">>, <<",", " ">>)
    IN  Upper(Strip(n3))

\* _normalize_name without the strip() of line 76
Mutant_normalize_name_NoStrip(name) ==
    LET n1 == Join(SplitWs(name, <<>>), <<" ">>)
        n2 == Replace(Replace(n1, <<" ", ",">>, <<",">>), <<",", " ">>, <<",">>)
        n3 == Replace(n2, <<",">>, <<",", " ">>)
    IN  Upper(n3)

_normalize_name(name) ==
    LET n1 == Join(SplitWs(name, <<>>), <<" ">>)
        n2 == Replace(Replace(n1, <<" ", ",">>, <<",">>), <<",", " ">>, <<",">>)
        n3 == Replace(n2, <<",">>, <<",", " ">>)
    IN  Upper(Strip(n3))

RECURSIVE SeqsUpTo(_, _)
SeqsUpTo(S, n) ==
    IF n = 0 THEN {<<>>}
    ELSE LET prev == SeqsUpTo(S, n - 1)
         IN  prev \cup {Append(p, c) : p \in {q \in prev : Len(q) = n - 1}, c \in S}

RawNames == SeqsUpTo(NameChars, MaxLen)

NameIdle == raw = <<>> /\ norm = <<>> /\ renorm = <<>> /\ npc = "idle"

InitName ==
    /\ raw \in RawNames
    /\ norm = <<>>
    /\ renorm = <<>>
    /\ npc = "start"

\* name = self._normalize_name(str(row['NAME'])) / self._normalize_name(student_name)
NormalizeOnce ==
    /\ npc = "start"
    /\ norm' = _normalize_name(raw)
    /\ npc' = "once"
    /\ UNCHANGED <<raw, renorm, template, genVars, mergeVars, detVars, parseVars, allVars,
                   bookVars, quarterVars, uploadVars, fileVars, requestVars, titleVars>>

\* the normalised key is normalised again
NormalizeTwice ==
    /\ npc = "once"
    /\ renorm' = _normalize_name(norm)
    /\ npc' = "twice"
    /\ UNCHANGED <<raw, norm, template, genVars, mergeVars, detVars, parseVars, allVars, bookVars,
                   quarterVars, uploadVars, fileVars, requestVars, titleVars>>

----------------------------------------------------------------------------
(* Cell values and sheets (openpyxl) *)

None == [k |-> "none", s |-> <<>>, n |-> 0]
Str(t) == [k |-> "str", s |-> t, n |-> 0]
Num(i) == [k |-> "num", s |-> <<>>, n |-> i]

\* self.subject_mapping, in insertion order: <<summary key, SF10 subject>>
subject_mapping ==
    << <<"LANGUAGE", "Language">>,
       <<"READING AND LITERACY", "Reading and Literacy">>,
       <<"MATH", "Mathematics">>,
       <<"GMRC", "GMRC (Good Manners and Right Conduct)">>,
       <<"MAKABANSA", "Makabansa">> >>

SummarySubjects == {subject_mapping[i][1] : i \in 1..Len(subject_mapping)}

\* self.sf10_subject_rows (0-indexed)
sf10_subject_rows ==
    [sub \in {subject_mapping[i][2] : i \in 1..Len(subject_mapping)} |->
        CASE sub = "Language" -> 29
          [] sub = "Reading and Literacy" -> 30
          [] sub = "Mathematics" -> 31
          [] sub = "GMRC (Good Manners and Right Conduct)" -> 32
          [] sub = "Makabansa" -> 33]

\* self.sf10_quarter_columns (0-indexed)
sf10_quarter_columns == [q \in 1..4 |-> CASE q = 1 -> 10 [] q = 2 -> 11 [] q = 3 -> 12 [] q = 4 -> 13]

Quarters == DOMAIN sf10_quarter_columns

\* The cells of a sheet the program reads or writes, as <<row, column>> (1-indexed)
NameCells == {<<9, 5>>, <<9, 17>>, <<9, 42>>}
ProfileCells == {<<10, 10>>, <<10, 21>>, <<10, 45>>}
LabelCells == {<<30, 2>>, <<31, 2>>, <<32, 2>>}
GradeCells == {<<r, c>> : r \in 30..34, c \in 11..14}
Coords == NameCells \cup ProfileCells \cup LabelCells \cup GradeCells

\* A worksheet is [title, cells, covered, readonly, merged]:
\*   cells     the values at Coords
\*   merged    the number of ranges of ws.merged_cells
\*   covered   the coordinates inside such a range other than its top-left cell
\*   readonly  the coordinates held by a MergedCell object, whose value cannot
\*             be set: all of covered in a sheet loaded from a file, none in a
\*             sheet made by copy_worksheet (it copies the ranges, not the
\*             MergedCell objects)
\* A write in progress is [ws, ok]: ok turns FALSE when a write raised.

\* ws.cell(row=r, column=c).value = v
WriteCell(st, r, c, v) ==
    IF ~st.ok THEN st
    ELSE IF <<r, c>> \in st.ws.readonly THEN [st EXCEPT !.ok = FALSE]
    ELSE [st EXCEPT !.ws.cells[<<r, c>>] = v]

\* ws.cell(row=r, column=c, value=v): the value is set unless it is None
CellWithValue(st, r, c, v) == IF v = None THEN st ELSE WriteCell(st, r, c, v)

\* wb.save(path) then load_workbook(path): a cell holding '' is written as an
\* empty cell and reads back None
SavedCell(v) == IF v.k = "str" /\ v.s = <<>> THEN None ELSE v

\* ... and the cells covered by a merged range come back as empty MergedCells
SaveSheet(sheet) ==
    [sheet EXCEPT
        !.cells = [co \in Coords |->
                     IF co \in sheet.covered THEN None ELSE SavedCell(sheet.cells[co])],
        !.readonly = sheet.covered]

\* the name part as split, without the strip()
Mutant_NamePart_NoStrip(name_parts, i) ==
    IF Len(name_parts) > i THEN name_parts[i + 1] ELSE <<>>

\* name_parts[i].strip() if len(name_parts) > i else ''   (i is 0-based)
NamePart(name_parts, i) == IF Len(name_parts) > i THEN Strip(name_parts[i + 1]) ELSE <<>>

\* student['grades'].get(summary_subject, 0)
GradeOf(stu, summary_subject) ==
    IF summary_subject \in DOMAIN stu.grades THEN stu.grades[summary_subject] ELSE Num(0)

\* str(int(n)) for a small non-negative n
RECURSIVE Digits(_)
Digits(i) ==
    LET d == <<"0", "1", "2", "3", "4", "5", "6", "7", "8", "9">>
    IN  IF i < 10 THEN <<d[i + 1]>> ELSE Digits(i \div 10) \o <<d[(i % 10) + 1]>>

----------------------------------------------------------------------------
(* The template populator: SF10Generator.generate_sf10_for_student *)

\* last, first and middle name into row 9, columns E, Q and AP
WriteNames(st, name_parts) ==
    LET s1 == CellWithValue(st, 9, 5, Str(NamePart(name_parts, 0)))
        s2 == CellWithValue(s1, 9, 17, Str(NamePart(name_parts, 1)))
    IN  CellWithValue(s2, 9, 42, Str(NamePart(name_parts, 2)))

\* str(int(profile['LRN'])) if pd.notna(profile['LRN']) else '' ; int() of a
\* text that is no number raises ValueError (the model's text LRNs are no numbers)
LrnRaises(lrn) == lrn.k = "str"
LrnText(lrn) == IF lrn.k = "num" THEN Str(Digits(lrn.n)) ELSE Str(<<>>)

\* the profile step clearing the three cells when the name is no profile key
Mutant_WriteProfile_ClearsWhenAbsent(st, student_name, profiles) ==
    IF _normalize_name(student_name) \in DOMAIN profiles THEN [st EXCEPT !.ok = FALSE]
    ELSE WriteCell(WriteCell(WriteCell(st, 10, 10, Str(<<>>)), 10, 21, Str(<<>>)),
                   10, 45, Str(<<>>))

\* LRN, birthday and sex into row 10 when the normalised name is a profile key
WriteProfile(st, student_name, profiles) ==
    LET student_name_upper == _normalize_name(student_name)
    IN  IF student_name_upper \notin DOMAIN profiles THEN st
        ELSE LET profile == profiles[student_name_upper]
             IN  IF LrnRaises(profile.LRN) THEN [st EXCEPT !.ok = FALSE]
                 ELSE LET s1 == WriteCell(st, 10, 10, LrnText(profile.LRN))
                          s2 == CellWithValue(s1, 10, 21, profile.BIRTHDAY)
                      IN  CellWithValue(s2, 10, 45, Str(profile.SEX))

\* the populator without lines 231-236: the other quarters are left as they are
Mutant_ClearOtherQuarters_KeepsOthers(st, row_idx, qtr, q) == st

\* for q in range(1, 5): if q != quarter: ws.cell(row_idx + 1, other_col + 1).value = ''
RECURSIVE ClearOtherQuarters(_, _, _, _)
ClearOtherQuarters(st, row_idx, qtr, q) ==
    IF q > 4 THEN st
    ELSE LET nxt == IF q # qtr
                    THEN WriteCell(st, row_idx + 1, sf10_quarter_columns[q] + 1, Str(<<>>))
                    ELSE st
         IN  ClearOtherQuarters(nxt, row_idx, qtr, q + 1)

\* the loop over self.subject_mapping.items() of generate_sf10_for_student,
\* from its i-th item on
RECURSIVE FillAndClear(_, _, _, _)
FillAndClear(st, stu, qtr, i) ==
    IF i > Len(subject_mapping) THEN st
    ELSE LET grade == GradeOf(stu, subject_mapping[i][1])
             row_idx == sf10_subject_rows[subject_mapping[i][2]]
             quarter_col == sf10_quarter_columns[qtr]
             s1 == CellWithValue(st, row_idx + 1, quarter_col + 1, grade)
         IN  FillAndClear(ClearOtherQuarters(s1, row_idx, qtr, 1), stu, qtr, i + 1)

\* names, profile and grades of one student into one sheet
Populate(st, stu, qtr, profiles) ==
    LET name_parts == SplitComma(stu.name, <<>>)
        s1 == WriteNames(st, name_parts)
        s2 == WriteProfile(s1, stu.name, profiles)
    IN  FillAndClear(s2, stu, qtr, 1)

----------------------------------------------------------------------------
(* Inputs of the populator *)

Txt_Language == <<"L", "a", "n", "g", "u", "a", "g", "e">>
Txt_Reading == <<"R", "e", "a", "d", "i", "n", "g">>
Txt_Math == <<"M", "a", "t", "h">>

\* a template sheet whose grade grid holds v and whose covered cells are ro
TemplateSheet(v, ro) ==
    [title |-> <<"S", "F">>,
     cells |-> [co \in Coords |->
                  CASE co \in ro -> None
                    [] co \in NameCells -> Str(<<"T">>)
                    [] co \in ProfileCells -> Num(7)
                    [] co = <<30, 2>> -> Str(Txt_Language)
                    [] co = <<31, 2>> -> Str(Txt_Reading)
                    [] co = <<32, 2>> -> Str(Txt_Math)
                    [] OTHER -> v],
     covered |-> ro,
     readonly |-> ro,
     merged |-> 500]

Templates == {TemplateSheet(v, ro) : v \in {None, Num(99)}, ro \in {{}, {<<32, 12>>}}}

GradeVec(a, b, c, d, e) ==
    [sub \in SummarySubjects |->
        CASE sub = "LANGUAGE" -> Num(a) [] sub = "READING AND LITERACY" -> Num(b)
          [] sub = "MATH" -> Num(c) [] sub = "GMRC" -> Num(d) [] sub = "MAKABANSA" -> Num(e)]

GradeVecs == {GradeVec(85, 87, 90, 88, 86), GradeVec(0, 75, 76, 77, 78)}

GenChars == {"A", ",", " "}

GenNames == SeqsUpTo(GenChars, MaxNameLen)

GenStudents == [name : GenNames, grades : GradeVecs]

NoProfiles == [key \in {} |-> None]

ProfileTables ==
    { NoProfiles,
      [key \in {<<"A">>} |-> [LRN |-> Num(123), BIRTHDAY |-> Num(2015), SEX |-> <<"M">>]],
      [key \in {<<"A", ",", " ", "A">>} |->
          [LRN |-> Str(<<"x">>), BIRTHDAY |-> None, SEX |-> <<"F">>]] }

GenIdle ==
    /\ learners_profile_data = NoProfiles
    /\ student = [name |-> <<>>, grades |-> GradeVec(0, 0, 0, 0, 0)]
    /\ quarter = 1
    /\ outfile = <<>>
    /\ gpc = "idle"

InitGen ==
    /\ template \in Templates
    /\ learners_profile_data \in ProfileTables
    /\ student \in GenStudents
    /\ quarter \in Quarters
    /\ outfile = <<>>
    /\ gpc = "start"

\* generate_sf10_for_student(student, quarter) returns: the populated copy of
\* the template is saved at output_path
GenerateReturns ==
    /\ gpc = "start"
    /\ LET st == Populate([ws |-> template, ok |-> TRUE], student, quarter,
                          learners_profile_data)
       IN  /\ st.ok
           /\ outfile' = <<SaveSheet(st.ws)>>
    /\ gpc' = "done"
    /\ UNCHANGED <<template, learners_profile_data, student, quarter>>
    /\ UNCHANGED <<nameVars, mergeVars, detVars, parseVars, allVars, bookVars, quarterVars,
                   uploadVars, fileVars, requestVars, titleVars>>

\* generate_sf10_for_student(student, quarter) raises before wb.save
GenerateRaises ==
    /\ gpc = "start"
    /\ ~Populate([ws |-> template, ok |-> TRUE], student, quarter,
                 learners_profile_data).ok
    /\ gpc' = "raised"
    /\ UNCHANGED <<template, learners_profile_data, student, quarter, outfile>>
    /\ UNCHANGED <<nameVars, mergeVars, detVars, parseVars, allVars, bookVars, quarterVars,
                   uploadVars, fileVars, requestVars, titleVars>>

----------------------------------------------------------------------------
(* Workbooks: a sequence of sheets, in sheet order (openpyxl Workbook) *)

sheetnames(wb) == [i \in 1..Len(wb) |-> wb[i].title]

IsDigit(c) == c \in {"0", "1", "2", "3", "4", "5", "6", "7", "8", "9"}

DigitVal(c) ==
    CASE c = "0" -> 0 [] c = "1" -> 1 [] c = "2" -> 2 [] c = "3" -> 3 [] c = "4" -> 4
      [] c = "5" -> 5 [] c = "6" -> 6 [] c = "7" -> 7 [] c = "8" -> 8 [] c = "9" -> 9

\* int(idx) of a run of digits
RECURSIVE ParseInt(_)
ParseInt(ds) ==
    IF ds = <<>> THEN 0 ELSE 10 * ParseInt(SubSeq(ds, 1, Len(ds) - 1)) + DigitVal(ds[Len(ds)])

\* the maximal run of digits of s that starts at position i
RECURSIVE DigitRun(_, _)
DigitRun(s, i) ==
    IF i <= Len(s) /\ IsDigit(s[i]) THEN <<s[i]>> \o DigitRun(s, i + 1) ELSE <<>>

\* the counts of re.findall("(value)(\d*),?", joined, re.I) that are digits,
\* scanning from position i
RECURSIVE TitleCounts(_, _, _)
TitleCounts(joined, value, i) ==
    IF i > Len(joined) + 1 THEN {}
    ELSE IF MatchAt(Lower(joined), Lower(value), i)
         THEN LET run == DigitRun(joined, i + Len(value))
                  after == i + Len(value) + Len(run)
                  end == IF after <= Len(joined) /\ joined[after] = "," THEN after + 1 ELSE after
                  nxt == IF end > i THEN end ELSE i + 1
              IN  (IF run # <<>> THEN {ParseInt(run)} ELSE {}) \cup TitleCounts(joined, value, nxt)
         ELSE TitleCounts(joined, value, i + 1)

SetMax(S) == CHOOSE m \in S : \A x \in S : x <= m

\* openpyxl.utils.avoid_duplicate_name, used by the title setter
avoid_duplicate_name(names, value) ==
    IF \E i \in 1..Len(names) : Lower(names[i]) = Lower(value)
    THEN LET counts == TitleCounts(Join(names, <<",">>), value, 1)
             highest == IF counts = {} THEN 0 ELSE SetMax(counts)
         IN  value \o Digits(highest + 1)
    ELSE value

\* ws.title = value
SetTitle(wb, i, value) ==
    IF wb[i].title = value THEN wb
    ELSE [wb EXCEPT ![i].title = avoid_duplicate_name(sheetnames(wb), value)]

\* s[:n]
Prefix(s, n) == SubSeq(s, 1, IF Len(s) < n THEN Len(s) ELSE n)

\* for char in [':', '\\', '/', '?', '*', '[', ']']: sheet_name = sheet_name.replace(char, '')
InvalidTitleChars == {":", "\\", "/", "?", "*", "[", "]"}

RemoveInvalid(s) == SelectSeq(s, LAMBDA c : c \notin InvalidTitleChars)

\* the sheet name built from a student name
SheetNameFor(student_name) ==
    LET name_parts == SplitComma(student_name, <<>>)
        last_name == NamePart(name_parts, 0)
        first_name == NamePart(name_parts, 1)
    IN  RemoveInvalid(Strip(Prefix(last_name, 15) \o <<" ">> \o Prefix(first_name, 10)))

\* output_wb.copy_worksheet(template_ws): a copy titled "<title> Copy", appended
CopyWorksheet(wb, from) ==
    LET new_title == from.title \o <<" ", "C", "o", "p", "y">>
    IN  Append(wb, [from EXCEPT !.title = avoid_duplicate_name(sheetnames(wb), new_title),
                                !.readonly = {}])

\* one iteration of the student loop of generate_single_workbook_all_students:
\* the sheet is copied and renamed, then populated; an exception while
\* populating is caught and leaves the sheet as far as it was written
AddStudentSheet(wb, stu, qtr, profiles) ==
    LET copied == CopyWorksheet(wb, wb[1])
        named == SetTitle(copied, Len(copied), SheetNameFor(stu.name))
        st == Populate([ws |-> named[Len(named)], ok |-> TRUE], stu, qtr, profiles)
    IN  [named EXCEPT ![Len(named)] = st.ws]

RECURSIVE AddStudentSheets(_, _, _, _)
AddStudentSheets(wb, studs, qtr, profiles) ==
    IF studs = <<>> THEN wb
    ELSE AddStudentSheets(AddStudentSheet(wb, Head(studs), qtr, profiles),
                          Tail(studs), qtr, profiles)

SaveWorkbook(wb) == [i \in 1..Len(wb) |-> SaveSheet(wb[i])]

\* the single workbook saved with the template sheet still in it
Mutant_generate_single_workbook_KeepsTemplate(tmpl, studs, qtr, profiles) ==
    [ok |-> TRUE, wb |-> SaveWorkbook(AddStudentSheets(<<tmpl>>, studs, qtr, profiles))]

\* generate_single_workbook_all_students: the template is copied to the
\* output path, one sheet is added per student, the template sheet is removed
\* and the workbook is saved.  The result is [ok, wb]: saving a workbook that
\* has no sheet left raises (ok = FALSE) and leaves the copy of the template.
generate_single_workbook_all_students(tmpl, studs, qtr, profiles) ==
    LET output_wb == AddStudentSheets(<<tmpl>>, studs, qtr, profiles)
        removed == Tail(output_wb)
    IN  IF removed = <<>> THEN [ok |-> FALSE, wb |-> <<tmpl>>]
        ELSE [ok |-> TRUE, wb |-> SaveWorkbook(removed)]

----------------------------------------------------------------------------
(* The merge engine: sf10_web_app.merge_quarters_into_sf10 *)

\* the search loop without its break: the last sheet name that contains last_name
RECURSIVE Mutant_FirstMatch_LastWins(_, _, _)
Mutant_FirstMatch_LastWins(names, last_name, i) ==
    IF i > Len(names) THEN <<>>
    ELSE LET rest == Mutant_FirstMatch_LastWins(names, last_name, i + 1)
         IN  IF rest # <<>> THEN rest
             ELSE IF Contains(names[i], last_name) THEN <<i>> ELSE <<>>

\* the first sheet name, in sheet order, that contains last_name; <<>> if none
RECURSIVE FirstMatch(_, _, _)
FirstMatch(names, last_name, i) ==
    IF i > Len(names) THEN <<>>
    ELSE IF Contains(names[i], last_name) THEN <<i>>
    ELSE FirstMatch(names, last_name, i + 1)

\* matching_sheet when the sheet is looked up by its name cells: the first
\* sheet whose last name cell holds the record's last name
Mutant_MatchingSheet_ByNameCell(wb, stu) ==
    LET name_parts == SplitComma(stu.name, <<>>)
        last_name == Strip(name_parts[1])
        own == {i \in 1..Len(wb) : wb[i].cells[<<9, 5>>] = Str(last_name)}
    IN  IF own = {} THEN <<>> ELSE <<CHOOSE i \in own : \A j \in own : i <= j>>

\* matching_sheet when a record without a match falls back to the first sheet
Mutant_MatchingSheet_FallsBack(wb, stu) ==
    LET name_parts == SplitComma(stu.name, <<>>)
        last_name == Strip(name_parts[1])
        m == FirstMatch(sheetnames(wb), last_name, 1)
    IN  IF m # <<>> THEN m ELSE IF wb # <<>> THEN <<1>> ELSE <<>>

\* matching_sheet of the student loop: the index of the sheet that is written,
\* <<>> when no name matches or the matching name is '' (falsy)
MatchingSheet(wb, stu) ==
    LET name_parts == SplitComma(stu.name, <<>>)
        last_name == Strip(name_parts[1])
        m == FirstMatch(sheetnames(wb), last_name, 1)
    IN  IF m # <<>> /\ wb[m[1]].title # <<>> THEN m ELSE <<>>

\* the merge step with the populator's loop: it also blanks the other quarters
Mutant_FillQuarter_ClearsOthers(st, stu, qtr, i) == FillAndClear(st, stu, qtr, i)

\* the merge step when it adds the grade to the number the cell already holds
RECURSIVE Mutant_FillQuarter_AddsUp(_, _, _, _)
Mutant_FillQuarter_AddsUp(st, stu, qtr, i) ==
    IF i > Len(subject_mapping) THEN st
    ELSE LET grade == GradeOf(stu, subject_mapping[i][1])
             row_idx == sf10_subject_rows[subject_mapping[i][2]]
             quarter_col == sf10_quarter_columns[qtr]
             old == st.ws.cells[<<row_idx + 1, quarter_col + 1>>]
             sum == IF old.k = "num" THEN Num(old.n + grade.n) ELSE grade
         IN  Mutant_FillQuarter_AddsUp(
                 CellWithValue(st, row_idx + 1, quarter_col + 1, sum), stu, qtr, i + 1)

\* the loop over generator.subject_mapping.items() of the merge step
RECURSIVE FillQuarter(_, _, _, _)
FillQuarter(st, stu, qtr, i) ==
    IF i > Len(subject_mapping) THEN st
    ELSE LET grade == GradeOf(stu, subject_mapping[i][1])
             row_idx == sf10_subject_rows[subject_mapping[i][2]]
             quarter_col == sf10_quarter_columns[qtr]
         IN  FillQuarter(CellWithValue(st, row_idx + 1, quarter_col + 1, grade),
                         stu, qtr, i + 1)

\* the merge step when it also writes the record's names, as the populator does
Mutant_MergeStudent_WritesNames(wb, stu, qtr) ==
    LET m == MatchingSheet(wb, stu)
    IN  IF m = <<>> THEN [ok |-> TRUE, wb |-> wb]
        ELSE LET named == WriteNames([ws |-> wb[m[1]], ok |-> TRUE], SplitComma(stu.name, <<>>))
                 st == FillQuarter(named, stu, qtr, 1)
             IN  [ok |-> st.ok, wb |-> [wb EXCEPT ![m[1]] = st.ws]]

\* one iteration of "for student in students": [ok, wb]
MergeStudent(wb, stu, qtr) ==
    LET m == MatchingSheet(wb, stu)
    IN  IF m = <<>> THEN [ok |-> TRUE, wb |-> wb]
        ELSE LET st == FillQuarter([ws |-> wb[m[1]], ok |-> TRUE], stu, qtr, 1)
             IN  [ok |-> st.ok, wb |-> [wb EXCEPT ![m[1]] = st.ws]]

----------------------------------------------------------------------------
(* Inputs of the merge engine *)

MergeNames == << <<"A", ",", "x">>, <<"A", "B", ",", "y">>, <<"Z">> >>

\* the rows a grading file for quarter q can hold: every student has one set
\* of grades per quarter, different from student to student, from quarter to
\* quarter and from subject to subject
MergeStudents(q) ==
    {[name |-> MergeNames[k],
      grades |-> GradeVec(20 * q + 10 * k + 1, 20 * q + 10 * k + 2, 20 * q + 10 * k + 3,
                          20 * q + 10 * k + 4, 20 * q + 10 * k + 5)] : k \in 1..Len(MergeNames)}

GradingSheets(q) == SeqsUpTo(MergeStudents(q), MaxStudents)

MergeTemplates == {TemplateSheet(Num(99), {}), TemplateSheet(None, {<<32, 12>>})}

\* a sheet of an uploaded SF10 workbook
ExistingSheet(title, last_name, first_name, ro) ==
    LET t == TemplateSheet(Num(60), ro)
    IN  [t EXCEPT !.title = title,
                  !.cells = [co \in Coords |->
                               CASE co = <<9, 5>> -> Str(last_name)
                                 [] co = <<9, 17>> -> Str(first_name)
                                 [] OTHER -> t.cells[co]]]

ExistingBooks ==
    { << ExistingSheet(<<"A", " ", "x">>, <<"A">>, <<"x">>, {}),
         ExistingSheet(<<"A", "B", " ", "y">>, <<"A", "B">>, <<"y">>, {}) >>,
      << ExistingSheet(<<"A", "B", " ", "y">>, <<"A", "B">>, <<"y">>, {<<32, 12>>}),
         ExistingSheet(<<"A", " ", "x">>, <<"A">>, <<"x">>, {}) >> }

\* upload_files sorts the pairs by quarter before it calls the merge engine
QuarterLists ==
    {qs \in SeqsUpTo(Quarters, MaxPairs) \ {<<>>} :
        \A i \in 1..(Len(qs) - 1) : qs[i] <= qs[i + 1]}

MergeIdle ==
    /\ grading_files = <<>>
    /\ existing_sf10 = <<>>
    /\ base_wb = <<>>
    /\ left = 0
    /\ merge_student = <<>>
    /\ warned = {}
    /\ again = <<>>
    /\ first_output = <<>>
    /\ output = <<>>
    /\ mpc = "idle"

\* upload_files hands over at least one (file, quarter) pair
InitMerge ==
    /\ template \in MergeTemplates
    /\ grading_files \in QuarterLists
    /\ existing_sf10 \in {<<>>} \cup {<<e>> : e \in ExistingBooks}
    /\ base_wb = <<>>
    /\ left = 0
    /\ merge_student = <<>>
    /\ warned = {}
    /\ again = <<>>
    /\ first_output = <<>>
    /\ output = <<>>
    /\ mpc = "call"

\* one grading file, merged into an uploaded SF10 and then merged again into
\* the result
InitRemerge ==
    /\ template \in MergeTemplates
    /\ \E q \in Quarters : \E sheet \in GradingSheets(q) :
          /\ grading_files = <<q>>
          /\ again = <<[files |-> <<q>>, students |-> sheet]>>
    /\ existing_sf10 \in {<<e>> : e \in ExistingBooks}
    /\ base_wb = <<>>
    /\ left = 0
    /\ merge_student = <<>>
    /\ warned = {}
    /\ first_output = <<>>
    /\ output = <<>>
    /\ mpc = "call"

\* generator.read_student_grades() on a grading file: any sheet content,
\* except for the file that is merged again
StudentsRead == IF again = <<>> THEN GradingSheets(Head(grading_files)) ELSE {again[1].students}

\* the row at position Len - left + 1 of the file being merged
RecordsAt(n) ==
    IF again = <<>> THEN MergeStudents(Head(grading_files))
    ELSE {again[1].students[Len(again[1].students) - n + 1]}

\* lines 109-113: the existing SF10 is copied to output_path and loaded
StartExisting ==
    /\ mpc = "call"
    /\ existing_sf10 # <<>>
    /\ output' = existing_sf10
    /\ base_wb' = existing_sf10[1]
    /\ mpc' = "pairs"
    /\ UNCHANGED <<template, grading_files, existing_sf10, left, merge_student, warned,
                   again, first_output>>
    /\ UNCHANGED <<nameVars, genVars, detVars, parseVars, allVars, bookVars, quarterVars,
                   uploadVars, fileVars, requestVars, titleVars>>

\* the fresh start without "grading_files = grading_files[1:]": the first pair
\* stays in the queue and is merged again
Mutant_StartFresh_KeepsFirstPair ==
    /\ mpc = "call"
    /\ existing_sf10 = <<>>
    /\ \E studs \in StudentsRead :
         LET r == generate_single_workbook_all_students(
                      template, studs, Head(grading_files), NoProfiles)
         IN  /\ output' = <<r.wb>>
             /\ IF r.ok
                THEN /\ base_wb' = r.wb
                     /\ mpc' = "pairs"
                     /\ UNCHANGED grading_files
                ELSE /\ mpc' = "raised"
                     /\ UNCHANGED <<base_wb, grading_files>>
    /\ UNCHANGED <<template, existing_sf10, left, merge_student, warned, again,
                   first_output>>
    /\ UNCHANGED <<nameVars, genVars, detVars, parseVars, allVars, bookVars, quarterVars,
                   uploadVars, fileVars, requestVars, titleVars>>

\* lines 114-130: the base workbook is generated from the first pair
StartFresh ==
    /\ mpc = "call"
    /\ existing_sf10 = <<>>
    /\ \E studs \in StudentsRead :
         LET r == generate_single_workbook_all_students(
                      template, studs, Head(grading_files), NoProfiles)
         IN  /\ output' = <<r.wb>>
             /\ IF r.ok
                THEN /\ base_wb' = r.wb
                     /\ grading_files' = Tail(grading_files)
                     /\ mpc' = "pairs"
                ELSE /\ mpc' = "raised"
                     /\ UNCHANGED <<base_wb, grading_files>>
    /\ UNCHANGED <<template, existing_sf10, left, merge_student, warned, again,
                   first_output>>
    /\ UNCHANGED <<nameVars, genVars, detVars, parseVars, allVars, bookVars, quarterVars,
                   uploadVars, fileVars, requestVars, titleVars>>

\* lines 133-145: the next pair's grading file is read and the student loop
\* starts at its first row; a file without student rows is done at once
LoadPair ==
    /\ mpc = "pairs"
    /\ grading_files # <<>>
    /\ \E n \in {Len(studs) : studs \in StudentsRead} :
         IF n = 0
         THEN /\ grading_files' = Tail(grading_files)
              /\ UNCHANGED <<left, merge_student, mpc>>
         ELSE /\ left' = n
              /\ merge_student' \in {<<stu>> : stu \in RecordsAt(n)}
              /\ mpc' = "records"
              /\ UNCHANGED grading_files
    /\ UNCHANGED <<template, existing_sf10, base_wb, warned, again, first_output, output>>
    /\ UNCHANGED <<nameVars, genVars, detVars, parseVars, allVars, bookVars, quarterVars,
                   uploadVars, fileVars, requestVars, titleVars>>

\* the student loop moves on to the next row, or to the next pair
Advance ==
    /\ left' = left - 1
    /\ IF left = 1
       THEN /\ grading_files' = Tail(grading_files)
            /\ merge_student' = <<>>
            /\ mpc' = "pairs"
       ELSE /\ merge_student' \in {<<stu>> : stu \in RecordsAt(left - 1)}
            /\ UNCHANGED <<grading_files, mpc>>

\* the student loop when it saves the workbook after every record it writes
Mutant_MergeWrites_SavesEachRecord ==
    /\ mpc = "records"
    /\ MatchingSheet(base_wb, merge_student[1]) # <<>>
    /\ LET r == MergeStudent(base_wb, merge_student[1], Head(grading_files))
       IN  /\ r.ok
           /\ base_wb' = r.wb
           /\ output' = <<SaveWorkbook(r.wb)>>
    /\ Advance
    /\ UNCHANGED <<template, existing_sf10, warned, again, first_output>>
    /\ UNCHANGED <<nameVars, genVars, detVars, parseVars, allVars, bookVars, quarterVars,
                   uploadVars, fileVars, requestVars, titleVars>>

\* lines 160-171: the record's grades are written into the matched sheet
MergeWrites ==
    /\ mpc = "records"
    /\ MatchingSheet(base_wb, merge_student[1]) # <<>>
    /\ LET r == MergeStudent(base_wb, merge_student[1], Head(grading_files))
       IN  /\ r.ok
           /\ base_wb' = r.wb
    /\ Advance
    /\ UNCHANGED <<template, existing_sf10, warned, again, first_output, output>>
    /\ UNCHANGED <<nameVars, genVars, detVars, parseVars, allVars, bookVars, quarterVars,
                   uploadVars, fileVars, requestVars, titleVars>>

\* lines 172-173: no sheet matches, a warning is printed
MergeSkips ==
    /\ mpc = "records"
    /\ MatchingSheet(base_wb, merge_student[1]) = <<>>
    /\ warned' = warned \cup {merge_student[1].name}
    /\ Advance
    /\ UNCHANGED <<template, existing_sf10, base_wb, again, first_output, output>>
    /\ UNCHANGED <<nameVars, genVars, detVars, parseVars, allVars, bookVars, quarterVars,
                   uploadVars, fileVars, requestVars, titleVars>>

\* line 169 raises: nothing in merge_quarters_into_sf10 catches it, and
\* upload_files answers with an error
MergeRaises ==
    /\ mpc = "records"
    /\ LET r == MergeStudent(base_wb, merge_student[1], Head(grading_files))
       IN  /\ ~r.ok
           /\ base_wb' = r.wb
    /\ mpc' = "raised"
    /\ UNCHANGED <<template, grading_files, existing_sf10, left, merge_student, warned,
                   again, first_output, output>>
    /\ UNCHANGED <<nameVars, genVars, detVars, parseVars, allVars, bookVars, quarterVars,
                   uploadVars, fileVars, requestVars, titleVars>>

\* lines 175-179: base_wb.save(output_path)
SaveMerged ==
    /\ mpc = "pairs"
    /\ grading_files = <<>>
    /\ output' = <<SaveWorkbook(base_wb)>>
    /\ mpc' = "done"
    /\ UNCHANGED <<template, grading_files, existing_sf10, base_wb, left, merge_student,
                   warned, again, first_output>>
    /\ UNCHANGED <<nameVars, genVars, detVars, parseVars, allVars, bookVars, quarterVars,
                   uploadVars, fileVars, requestVars, titleVars>>

\* the same upload is sent again with the workbook that was just produced
MergeAgain ==
    /\ mpc = "done"
    /\ again # <<>>
    /\ first_output = <<>>
    /\ first_output' = output
    /\ existing_sf10' = output
    /\ grading_files' = again[1].files
    /\ output' = <<>>
    /\ base_wb' = <<>>
    /\ warned' = {}
    /\ mpc' = "call"
    /\ UNCHANGED <<template, left, merge_student, again>>
    /\ UNCHANGED <<nameVars, genVars, detVars, parseVars, allVars, bookVars, quarterVars,
                   uploadVars, fileVars, requestVars, titleVars>>

----------------------------------------------------------------------------
(* The SF10 structure detector: sf10_web_app.is_sf10_file *)

\* truthiness of a cell value: None, 0 and '' are falsy
Truthy(v) == (v.k = "str" /\ v.s # <<>>) \/ (v.k = "num" /\ v.n # 0)

IsStr(v) == v.k = "str"

SubjectWords ==
    { <<"l", "a", "n", "g", "u", "a", "g", "e">>,
      <<"r", "e", "a", "d", "i", "n", "g">>,
      <<"m", "a", "t", "h">> }

\* subject_indicators: the lower-cased text of rows 30-32, column B
RECURSIVE SubjectIndicators(_, _)
SubjectIndicators(first_sheet, rows) ==
    IF rows = <<>> THEN <<>>
    ELSE LET val == first_sheet.cells[<<Head(rows), 2>>]
         IN  (IF Truthy(val) /\ IsStr(val) THEN <<Lower(val.s)>> ELSE <<>>)
                 \o SubjectIndicators(first_sheet, Tail(rows))

\* is_sf10_file when the merged-region check is ">= 100"
Mutant_is_sf10_file_HundredSuffices(file) ==
    IF ~file.readable THEN FALSE
    ELSE IF Len(file.wb) < 20 THEN FALSE
    ELSE LET first_sheet == file.wb[1]
             last_name_cell == first_sheet.cells[<<9, 5>>]
         IN  IF ~(Truthy(last_name_cell) /\ IsStr(last_name_cell)
                    /\ Len(Strip(last_name_cell.s)) > 0)
             THEN FALSE
             ELSE LET joined == Join(SubjectIndicators(first_sheet, <<30, 31, 32>>), <<" ">>)
                      has_subjects == \E word \in SubjectWords : Contains(joined, word)
                      has_many_merged == first_sheet.merged >= 100
                  IN  Truthy(last_name_cell) /\ has_subjects /\ has_many_merged

\* is_sf10_file(filepath); a file is [readable, wb], and load_workbook raises
\* on a file that is not readable
is_sf10_file(file) ==
    IF ~file.readable THEN FALSE
    ELSE IF Len(file.wb) < 20 THEN FALSE
    ELSE LET first_sheet == file.wb[1]
             last_name_cell == first_sheet.cells[<<9, 5>>]
         IN  IF ~(Truthy(last_name_cell) /\ IsStr(last_name_cell)
                    /\ Len(Strip(last_name_cell.s)) > 0)
             THEN FALSE
             ELSE LET joined == Join(SubjectIndicators(first_sheet, <<30, 31, 32>>), <<" ">>)
                      has_subjects == \E word \in SubjectWords : Contains(joined, word)
                      has_many_merged == first_sheet.merged > 100
                  IN  Truthy(last_name_cell) /\ has_subjects /\ has_many_merged

----------------------------------------------------------------------------
(* Inputs of the detector *)

\* the first sheet of an uploaded workbook
ProbeSheet(last_name_cell, labels, merged) ==
    [title |-> <<"P">>,
     cells |-> [co \in Coords |->
                  CASE co = <<9, 5>> -> last_name_cell
                    [] co = <<30, 2>> -> labels[1]
                    [] co = <<31, 2>> -> labels[2]
                    [] co = <<32, 2>> -> labels[3]
                    [] OTHER -> None],
     covered |-> {},
     readonly |-> {},
     merged |-> merged]

ProbeLastNames == {None, Num(5), Str(<<" ">>), Str(<<"D">>), Str(<<" ", "D">>)}

ProbeLabels ==
    { <<Str(Txt_Language), Str(Txt_Reading), Str(Txt_Math)>>,
      <<None, None, None>>,
      <<Str(<<"M", "a">>), Str(<<"t", "h">>), None>>,
      <<None, Num(3), Str(<<"M", "A", "T", "H">>)>>,
      <<Str(<<"x">>), Str(<<"a", " ", "R", "e", "a", "d", "i", "n", "g">>), Num(0)>> }

ProbeMerged == {0, 100, 101, 500}

ProbeSheetCounts == {1, 3, 19, 20, 21}

\* a workbook of n sheets whose first sheet is first
ProbeBook(first, n) == [i \in 1..n |-> IF i = 1 THEN first ELSE [first EXCEPT !.title = <<"P">> \o Digits(i)]]

ProbeFiles ==
    {[readable |-> FALSE, wb |-> <<>>]} \cup
    {[readable |-> TRUE, wb |-> ProbeBook(ProbeSheet(l, labs, m), n)] :
        l \in ProbeLastNames, labs \in ProbeLabels, m \in ProbeMerged, n \in ProbeSheetCounts}

DetectIdle ==
    /\ probe = [readable |-> FALSE, wb |-> <<>>]
    /\ origin = "none"
    /\ verdict = "none"

\* an uploaded file, or a grading file from which a workbook is generated first
InitDetect ==
    /\ template \in Templates
    /\ \/ probe \in ProbeFiles /\ origin = "upload"
       \/ probe = [readable |-> FALSE, wb |-> <<>>] /\ origin = "togenerate"
    /\ verdict = "none"

\* generator.generate_single_workbook_all_students(quarter, output_filename)
\* in tests/test_sf10_detection.py: the file it returns is the one classified
GenerateForDetect ==
    /\ origin = "togenerate"
    /\ \E q \in Quarters : \E studs \in GradingSheets(q) :
         LET r == generate_single_workbook_all_students(template, studs, q, NoProfiles)
         IN  /\ r.ok
             /\ probe' = [readable |-> TRUE, wb |-> r.wb]
    /\ origin' = "generated"
    /\ UNCHANGED <<template, verdict, nameVars, genVars, mergeVars, parseVars, allVars, bookVars,
                   quarterVars, uploadVars, fileVars, requestVars, titleVars>>

\* is_sf10_file(filepath) returns
Detect ==
    /\ origin \in {"upload", "generated"}
    /\ verdict = "none"
    /\ verdict' = IF is_sf10_file(probe) THEN "sf10" ELSE "other"
    /\ UNCHANGED <<template, probe, origin, nameVars, genVars, mergeVars, parseVars, allVars,
                   bookVars, quarterVars, uploadVars, fileVars, requestVars, titleVars>>

----------------------------------------------------------------------------
(* The grade sheet parser: SF10Generator.read_student_grades *)

\* The grid is [width, rows]: width is the number of columns of the frame and
\* rows its rows, each [name, grades]: the cell of column 1 and the cells of
\* columns 5..9; a cell of a column >= width does not exist, an empty cell
\* that exists holds None (NaN).

MaxRows == 3         \* most rows of the grid below index 10

\* start_row = 10
start_row == 10

Txt_MALE == <<"M", "A", "L", "E">>
Txt_FEMALE == <<"F", "E", "M", "A", "L", "E">>
Txt_LEARNERS_NAMES ==
    <<"L", "E", "A", "R", "N", "E", "R", "S", "'", " ", "N", "A", "M", "E", "S">>

\* ['MALE', 'FEMALE', "LEARNERS' NAMES", '']
SkippedNames == {Txt_MALE, Txt_FEMALE, Txt_LEARNERS_NAMES, <<>>}

\* str(value) of a cell that is not NaN
StrOf(v) == IF v.k = "num" THEN Digits(v.n) ELSE v.s

\* safe_get_grade without the pd.isna test: a missing value is handed on
Mutant_safe_get_grade_KeepsMissing(width, row, col_idx) ==
    IF col_idx < width THEN row.grades[col_idx - 4] ELSE Num(0)

\* safe_get_grade(row, col_idx)
safe_get_grade(width, row, col_idx) ==
    LET value == IF col_idx < width THEN row.grades[col_idx - 4] ELSE Num(0)
    IN  IF value # None THEN value ELSE Num(0)

\* the grades dictionary of one row
GradesOfRow(width, row) ==
    [sub \in SummarySubjects |->
        CASE sub = "LANGUAGE" -> safe_get_grade(width, row, 5)
          [] sub = "READING AND LITERACY" -> safe_get_grade(width, row, 6)
          [] sub = "MATH" -> safe_get_grade(width, row, 7)
          [] sub = "GMRC" -> safe_get_grade(width, row, 8)
          [] sub = "MAKABANSA" -> safe_get_grade(width, row, 9)]

\* the row loop when a blank row ends it (break instead of continue)
RECURSIVE Mutant_ReadRows_StopsAtBlank(_, _)
Mutant_ReadRows_StopsAtBlank(g, idx) ==
    IF idx >= Len(g.rows) THEN [ok |-> TRUE, students |-> <<>>]
    ELSE IF g.width < 2 THEN [ok |-> FALSE, students |-> <<>>]
    ELSE LET row == g.rows[idx + 1]
             rest == Mutant_ReadRows_StopsAtBlank(g, idx + 1)
             student_name == Strip(StrOf(row.name))
         IN  IF row.name = None \/ row.name = Str(<<>>)
             THEN [ok |-> TRUE, students |-> <<>>]
             ELSE IF student_name \in SkippedNames THEN rest
             ELSE [rest EXCEPT !.students =
                      <<[name |-> student_name, grades |-> GradesOfRow(g.width, row)]>> \o @]

\* for idx in range(start_row, len(df)), from idx on: [ok, students]; row[1]
\* raises KeyError when the frame has no column 1
RECURSIVE ReadRows(_, _)
ReadRows(g, idx) ==
    IF idx >= Len(g.rows) THEN [ok |-> TRUE, students |-> <<>>]
    ELSE IF g.width < 2 THEN [ok |-> FALSE, students |-> <<>>]
    ELSE LET row == g.rows[idx + 1]
             rest == ReadRows(g, idx + 1)
             student_name == Strip(StrOf(row.name))
         IN  IF row.name = None \/ row.name = Str(<<>>) THEN rest
             ELSE IF student_name \in SkippedNames THEN rest
             ELSE [rest EXCEPT !.students =
                      <<[name |-> student_name, grades |-> GradesOfRow(g.width, row)]>> \o @]

read_student_grades(g) == ReadRows(g, start_row)

\* the rows a summary sheet can hold below the header rows
ParseNameCells ==
    {None, Str(<<" ">>), Str(<<" ">> \o Txt_MALE), Str(<<"A", ",", "x", " ">>), Str(<<"B">>)}

ParseGradeCells ==
    { <<Num(81), Num(82), Num(83), Num(84), Num(85)>>,
      <<Num(80), None, Str(<<"x">>), Num(0), None>> }

ParseRows == [name : ParseNameCells, grades : ParseGradeCells]

\* the rows above index 10 (i is 1-based): the header labels at index 7, "MALE"
\* at index 9, and rows that look like student rows
HeaderRow(i) ==
    CASE i = 8 -> [name |-> Str(Txt_LEARNERS_NAMES), grades |-> <<None, None, None, None, None>>]
      [] i = 10 -> [name |-> Str(Txt_MALE), grades |-> <<None, None, None, None, None>>]
      [] OTHER -> [name |-> Str(<<"H">>),
                   grades |-> <<Num(70), Num(70), Num(70), Num(70), Num(70)>>]

GridWidths == {1, 6, 10}

Grids ==
    {[width |-> w, rows |-> [i \in 1..n |-> HeaderRow(i)]] :
        w \in GridWidths, n \in {0, 9, 10}}
    \cup
    {[width |-> w, rows |-> [i \in 1..10 |-> HeaderRow(i)] \o data] :
        w \in GridWidths, data \in SeqsUpTo(ParseRows, MaxRows) \ {<<>>}}

ParseIdle ==
    /\ grid = [width |-> 0, rows |-> <<>>]
    /\ students = <<>>
    /\ rpc = "idle"

InitParse ==
    /\ grid \in Grids
    /\ students = <<>>
    /\ rpc = "start"

\* read_student_grades() returns the list of students
ReadReturns ==
    /\ rpc = "start"
    /\ LET r == read_student_grades(grid)
       IN  r.ok /\ students' = r.students
    /\ rpc' = "returned"
    /\ UNCHANGED <<template, grid, nameVars, genVars, mergeVars, detVars, allVars, bookVars,
                   quarterVars, uploadVars, fileVars, requestVars, titleVars>>

\* read_student_grades() raises
ReadRaises ==
    /\ rpc = "start"
    /\ ~read_student_grades(grid).ok
    /\ rpc' = "raised"
    /\ UNCHANGED <<template, grid, students, nameVars, genVars, mergeVars, detVars, allVars,
                   bookVars, quarterVars, uploadVars, fileVars, requestVars, titleVars>>

----------------------------------------------------------------------------
(* One file per student: SF10Generator.generate_all_sf10s *)

\* str.replace(' ', '_') and str.replace(',', '')
Underscored(s) == [i \in 1..Len(s) |-> IF s[i] = " " THEN "_" ELSE s[i]]
WithoutCommas(s) == SelectSeq(s, LAMBDA c : c # ",")

\* output_filename of generate_sf10_for_student: f'SF10_{safe_name}_{first}.xlsx'
OutputFilename(student_name) ==
    LET name_parts == SplitComma(student_name, <<>>)
        safe_name == Underscored(WithoutCommas(NamePart(name_parts, 0)))
    IN  <<"S", "F", "1", "0", "_">> \o safe_name \o <<"_">>
            \o Underscored(NamePart(name_parts, 1)) \o <<".", "x", "l", "s", "x">>

\* wb.save(path): the file at path is created or replaced
SaveAt(dir, path, file) ==
    [f \in DOMAIN dir \cup {path} |-> IF f = path THEN file ELSE dir[f]]

\* the loop without its try/except: the first student that raises ends it
RECURSIVE Mutant_GenerateEach_StopsAtRaise(_, _, _, _, _, _)
Mutant_GenerateEach_StopsAtRaise(st, tmpl, studs, qtr, profiles, i) ==
    IF i > Len(studs) THEN st
    ELSE LET one == Populate([ws |-> tmpl, ok |-> TRUE], studs[i], qtr, profiles)
             output_path == OutputFilename(studs[i].name)
         IN  IF one.ok
             THEN Mutant_GenerateEach_StopsAtRaise(
                      [st EXCEPT !.dir = SaveAt(@, output_path, SaveSheet(one.ws)),
                                 !.generated_files = Append(@, output_path)],
                      tmpl, studs, qtr, profiles, i + 1)
             ELSE [st EXCEPT !.failed = Append(@, studs[i].name)]

\* the loop of generate_all_sf10s from the i-th student on; st is
\* [dir, generated_files, failed]
RECURSIVE GenerateEach(_, _, _, _, _, _)
GenerateEach(st, tmpl, studs, qtr, profiles, i) ==
    IF i > Len(studs) THEN st
    ELSE LET one == Populate([ws |-> tmpl, ok |-> TRUE], studs[i], qtr, profiles)
             output_path == OutputFilename(studs[i].name)
             nxt == IF one.ok
                    THEN [st EXCEPT !.dir = SaveAt(@, output_path, SaveSheet(one.ws)),
                                    !.generated_files = Append(@, output_path)]
                    ELSE [st EXCEPT !.failed = Append(@, studs[i].name)]
         IN  GenerateEach(nxt, tmpl, studs, qtr, profiles, i + 1)

EmptyDir == [f \in {} |-> None]

generate_all_sf10s(tmpl, studs, qtr, profiles) ==
    GenerateEach([dir |-> EmptyDir, generated_files |-> <<>>, failed |-> <<>>],
                 tmpl, studs, qtr, profiles, 1)

\* the students of a grading sheet: one set of grades per student
BatchNames ==
    << <<"A">>, <<"A", ",", "A">>, <<"A", ",", "A", ",", "B">>, <<"C", " ", "D", ",", " ", "E">> >>

BatchStudents ==
    {[name |-> BatchNames[k],
      grades |-> GradeVec(10 * k + 1, 10 * k + 2, 10 * k + 3, 10 * k + 4, 10 * k + 5)] :
         k \in 1..Len(BatchNames)}

Batches == SeqsUpTo(BatchStudents, MaxStudents)

AllIdle ==
    /\ batch = <<>>
    /\ out_dir = EmptyDir
    /\ generated_files = <<>>
    /\ failed = <<>>
    /\ apc = "idle"

InitAll ==
    /\ template \in Templates
    /\ learners_profile_data \in ProfileTables
    /\ quarter \in Quarters
    /\ student = [name |-> <<>>, grades |-> GradeVec(0, 0, 0, 0, 0)]
    /\ outfile = <<>>
    /\ gpc = "idle"
    /\ batch \in Batches
    /\ out_dir = EmptyDir
    /\ generated_files = <<>>
    /\ failed = <<>>
    /\ apc = "start"

\* generate_all_sf10s(quarter) returns
GenerateAll ==
    /\ apc = "start"
    /\ LET r == generate_all_sf10s(template, batch, quarter, learners_profile_data)
       IN  /\ out_dir' = r.dir
           /\ generated_files' = r.generated_files
           /\ failed' = r.failed
    /\ apc' = "done"
    /\ UNCHANGED <<template, batch, nameVars, genVars, mergeVars, detVars, parseVars, bookVars,
                   quarterVars, uploadVars, fileVars, requestVars, titleVars>>

----------------------------------------------------------------------------
(* One workbook for all students: generate_single_workbook_all_students *)

\* a media part of an archive, xl/media/image<n>.<ext>, as <<n, ext>>
MediaPart(n, ext) == <<n, ext>>

\* the two logo files looked up under <project_root>/assets/img
LogoPaths == {"kagawaran_seal_path", "deped_logo_path"}

\* lines 329-385 for every student: each logo file that exists is added to
\* the student's sheet with new_ws.add_image; images is the number added so far
RECURSIVE AddLogos(_, _, _)
AddLogos(studs, logos, images) ==
    IF studs = <<>> THEN images
    ELSE AddLogos(Tail(studs), logos, images + Cardinality(logos))

\* output_wb.save(output_path) writes one part image<k>.png per image held by
\* the sheets of the workbook; copy_worksheet copies no image and the images
\* of the template sheet leave the workbook with that sheet
SavedMedia(studs, logos) ==
    {MediaPart(k, "png") : k \in 1..AddLogos(studs, logos, 0)}

\* the media parts at output_path when generate_single_workbook_all_students
\* is over: those of the saved workbook, or those of the copy of the
\* template made by shutil.copy when the save raised
OutputMedia(media, studs, logos, saved) ==
    IF saved THEN SavedMedia(studs, logos) ELSE media

TemplateMedia == {{}, {MediaPart(1, "png"), MediaPart(2, "png")}}

LogoFiles == {{}, LogoPaths}

BookNames ==
    << <<"A">>, <<"A", ",", "A">>, <<"A", ",", "A", ",", "B">>,
       <<"C", " ", "D", ",", " ", "E">>, <<"?">> >>

BookStudents ==
    {[name |-> BookNames[k],
      grades |-> GradeVec(10 * k + 1, 10 * k + 2, 10 * k + 3, 10 * k + 4, 10 * k + 5)] :
         k \in 1..Len(BookNames)}

\* the rows of a grading sheet, in sheet order: up to MaxStudents of the names
BookBatches ==
    {[i \in 1..Len(ks) |-> CHOOSE stu \in BookStudents : stu.name = BookNames[ks[i]]] :
        ks \in {js \in SeqsUpTo(1..Len(BookNames), MaxStudents) :
                  \A i \in 1..Len(js) - 1 : js[i] < js[i + 1]}}

BookQuarters == {1, 2}

BookIdle ==
    /\ book_students = <<>>
    /\ tmpl_media = {}
    /\ logo_files = {}
    /\ book = <<>>
    /\ out_media = {}
    /\ bpc = "idle"

InitBook ==
    /\ template \in Templates
    /\ learners_profile_data \in ProfileTables
    /\ quarter \in BookQuarters
    /\ student = [name |-> <<>>, grades |-> GradeVec(0, 0, 0, 0, 0)]
    /\ outfile = <<>>
    /\ gpc = "idle"
    /\ book_students \in BookBatches
    /\ tmpl_media \in TemplateMedia
    /\ logo_files \in LogoFiles
    /\ book = <<>>
    /\ out_media = {}
    /\ bpc = "start"

\* generate_single_workbook_all_students(quarter) returns output_path
GenerateBook ==
    /\ bpc = "start"
    /\ LET r == generate_single_workbook_all_students(
                    template, book_students, quarter, learners_profile_data)
       IN  /\ r.ok
           /\ book' = <<r.wb>>
           /\ out_media' = OutputMedia(tmpl_media, book_students, logo_files, TRUE)
    /\ bpc' = "done"
    /\ UNCHANGED <<template, book_students, tmpl_media, logo_files>>
    /\ UNCHANGED <<nameVars, genVars, mergeVars, detVars, parseVars, allVars, quarterVars,
                   uploadVars, fileVars, requestVars, titleVars>>

\* generate_single_workbook_all_students(quarter) raises at output_wb.save:
\* output_path holds the copy of the template
GenerateBookRaises ==
    /\ bpc = "start"
    /\ LET r == generate_single_workbook_all_students(
                    template, book_students, quarter, learners_profile_data)
       IN  /\ ~r.ok
           /\ book' = <<r.wb>>
           /\ out_media' = OutputMedia(tmpl_media, book_students, logo_files, FALSE)
    /\ bpc' = "raised"
    /\ UNCHANGED <<template, book_students, tmpl_media, logo_files>>
    /\ UNCHANGED <<nameVars, genVars, mergeVars, detVars, parseVars, allVars, quarterVars,
                   uploadVars, fileVars, requestVars, titleVars>>

----------------------------------------------------------------------------
(* The quarter of a grading file: sf10_web_app.identify_quarter_from_filename *)

Txt_1st == <<"1", "s", "t">>
Txt_2nd == <<"2", "n", "d">>
Txt_3rd == <<"3", "r", "d">>
Txt_4th == <<"4", "t", "h">>
Txt_first == <<"f", "i", "r", "s", "t">>
Txt_second == <<"s", "e", "c", "o", "n", "d">>
Txt_third == <<"t", "h", "i", "r", "d">>
Txt_fourth == <<"f", "o", "u", "r", "t", "h">>

\* the file name with only the ordinals and the words looked for
Mutant_identify_quarter_OrdinalsAndWords(name) ==
    LET filename_lower == Lower(name)
    IN  IF Contains(filename_lower, Txt_1st) \/ Contains(filename_lower, Txt_first)
        THEN Num(1)
        ELSE IF Contains(filename_lower, Txt_2nd) \/ Contains(filename_lower, Txt_second)
        THEN Num(2)
        ELSE IF Contains(filename_lower, Txt_3rd) \/ Contains(filename_lower, Txt_third)
        THEN Num(3)
        ELSE IF Contains(filename_lower, Txt_4th) \/ Contains(filename_lower, Txt_fourth)
        THEN Num(4)
        ELSE None

\* identify_quarter_from_filename(filename): a quarter as Num(q), or None
identify_quarter_from_filename(name) ==
    LET filename_lower == Lower(name)
    IN  IF \/ Contains(filename_lower, Txt_1st)
           \/ Contains(filename_lower, <<"1", " ">>)
           \/ Contains(filename_lower, Txt_first)
        THEN Num(1)
        ELSE IF \/ Contains(filename_lower, Txt_2nd)
                \/ Contains(filename_lower, <<"2", " ">>)
                \/ Contains(filename_lower, Txt_second)
        THEN Num(2)
        ELSE IF \/ Contains(filename_lower, Txt_3rd)
                \/ Contains(filename_lower, <<"3", " ">>)
                \/ Contains(filename_lower, Txt_third)
        THEN Num(3)
        ELSE IF \/ Contains(filename_lower, Txt_4th)
                \/ Contains(filename_lower, <<"4", " ">>)
                \/ Contains(filename_lower, Txt_fourth)
        THEN Num(4)
        ELSE None

MaxPieces == 2       \* most pieces of a file name

\* the pieces file names are made of
NamePieces ==
    { Txt_1st, <<"2", "N", "D">>, Txt_3rd, Txt_4th,
      <<"F", "i", "r", "s", "t">>, Txt_second, <<"T", "H", "I", "R", "D">>, Txt_fourth,
      <<"1">>, <<"2">>, <<"3">>, <<"4">>, <<" ">>, <<"_">> }

RECURSIVE Concat(_)
Concat(parts) == IF parts = <<>> THEN <<>> ELSE Head(parts) \o Concat(Tail(parts))

Filenames == {Concat(ps) : ps \in SeqsUpTo(NamePieces, MaxPieces)}

QuarterIdle ==
    /\ filename = <<>>
    /\ identified = None
    /\ qpc = "idle"

InitQuarter ==
    /\ filename \in Filenames
    /\ identified = None
    /\ qpc = "start"

\* identify_quarter_from_filename(filename) returns
Identify ==
    /\ qpc = "start"
    /\ identified' = identify_quarter_from_filename(filename)
    /\ qpc' = "returned"
    /\ UNCHANGED <<template, filename>>
    /\ UNCHANGED <<nameVars, genVars, mergeVars, detVars, parseVars, allVars, bookVars, uploadVars,
                   fileVars, requestVars, titleVars>>

----------------------------------------------------------------------------
(* The upload handler: sf10_web_app.upload_files *)

\* the characters werkzeug's secure_filename keeps: [A-Za-z0-9_.-]
FilenameChars ==
    {"a", "b", "c", "d", "e", "f", "g", "h", "i", "j", "k", "l", "m", "n", "o", "p", "q",
     "r", "s", "t", "u", "v", "w", "x", "y", "z", "A", "B", "C", "D", "E", "F", "G", "H",
     "I", "J", "K", "L", "M", "N", "O", "P", "Q", "R", "S", "T", "U", "V", "W", "X", "Y",
     "Z", "0", "1", "2", "3", "4", "5", "6", "7", "8", "9", "_", ".", "-"}

\* str.strip("._")
RECURSIVE StripDotsUnderscores(_)
StripDotsUnderscores(s) ==
    IF s # <<>> /\ Head(s) \in {".", "_"} THEN StripDotsUnderscores(Tail(s))
    ELSE IF s # <<>> /\ s[Len(s)] \in {".", "_"}
         THEN StripDotsUnderscores(SubSeq(s, 1, Len(s) - 1))
         ELSE s

\* secure_filename without the removal of the characters outside [A-Za-z0-9_.-]
Mutant_secure_filename_KeepsAll(name) ==
    StripDotsUnderscores(Join(SplitWs(Replace(name, <<"/">>, <<" ">>), <<>>), <<"_">>))

\* werkzeug.utils.secure_filename for an ASCII name: path separators become
\* blanks, the words are joined by "_", the characters outside [A-Za-z0-9_.-]
\* are removed, and dots and underscores are stripped from both ends
secure_filename(name) ==
    LET joined == Join(SplitWs(Replace(name, <<"/">>, <<" ">>), <<>>), <<"_">>)
    IN  StripDotsUnderscores(SelectSeq(joined, LAMBDA c : c \in FilenameChars))

MaxUploads == 2      \* most files of a request

\* the answers of upload_files
NoResponse == [status |-> 0, error |-> "", file |-> <<>>]
Unidentified(name) == [status |-> 400, error |-> "Could not identify file type", file |-> name]
NoGradingSheets == [status |-> 400, error |-> "No grading sheets uploaded", file |-> <<>>]
ServerError(text) == [status |-> 500, error |-> text, file |-> <<>>]
Success == [status |-> 200, error |-> "", file |-> <<>>]

\* the loop over request.files from the i-th file on; st is
\* [grading_files, existing_sf10, upload_folder, response], and the loop is left as
\* soon as there is a response
RECURSIVE ClassifyFiles(_, _, _)
ClassifyFiles(st, files, i) ==
    IF i > Len(files) \/ st.response # NoResponse THEN st
    ELSE IF files[i].filename = <<>> THEN ClassifyFiles(st, files, i + 1)
    ELSE LET name == secure_filename(files[i].filename)
             kept == [st EXCEPT !.upload_folder = @ \cup {name}]
             q == identify_quarter_from_filename(name)
             nxt == IF name = <<>>
                    THEN [st EXCEPT !.response = ServerError("Is a directory")]
                    ELSE IF is_sf10_file(files[i].content)
                    THEN [kept EXCEPT !.existing_sf10 = <<name>>]
                    ELSE IF q # None
                    THEN [kept EXCEPT !.grading_files = Append(@, <<name, q.n>>)]
                    ELSE [kept EXCEPT !.response = Unidentified(name)]
         IN  ClassifyFiles(nxt, files, i + 1)

\* the pairs handed over in upload order, without the sort
Mutant_SortByQuarter_UploadOrder(pairs) == pairs

\* grading_files.sort(key=lambda x: x[1]): stable
SortByQuarter(pairs) ==
    LET Of(q) == SelectSeq(pairs, LAMBDA p : p[2] = q)
    IN  Of(1) \o Of(2) \o Of(3) \o Of(4)

\* the contents of an uploaded file: no workbook, or an SF10 of 20 sheets
UploadContents ==
    { [readable |-> FALSE, wb |-> <<>>],
      [readable |-> TRUE,
       wb |-> ProbeBook(ProbeSheet(Str(<<"D">>),
                                   <<Str(Txt_Language), Str(Txt_Reading), Str(Txt_Math)>>,
                                   500), 20)] }

\* the names of uploaded files; the empty name is a form field left empty
UploadNames ==
    { <<>>, <<"x">>, <<"?">>, Txt_1st, <<"x", " ", "2", "N", "D">>, <<"1", "?", "s", "t">> }

UploadedFiles == [filename : UploadNames, content : UploadContents]

Requests == SeqsUpTo(UploadedFiles, MaxUploads)

UploadIdle ==
    /\ uploads = <<>>
    /\ upload_folder = {}
    /\ merge_calls = <<>>
    /\ response = NoResponse
    /\ upc = "idle"

InitUpload ==
    /\ uploads \in Requests
    /\ upload_folder = {}
    /\ merge_calls = <<>>
    /\ response = NoResponse
    /\ upc = "start"

\* upload_files() answers without calling merge_quarters_into_sf10: a file
\* could not be saved or identified, or there is no grading sheet
UploadRejected ==
    /\ upc = "start"
    /\ LET st == ClassifyFiles([grading_files |-> <<>>, existing_sf10 |-> <<>>,
                                upload_folder |-> {}, response |-> NoResponse], uploads, 1)
       IN  /\ st.response # NoResponse \/ st.grading_files = <<>>
           /\ upload_folder' = st.upload_folder
           /\ response' = IF st.response # NoResponse THEN st.response ELSE NoGradingSheets
    /\ upc' = "answered"
    /\ UNCHANGED <<template, uploads, merge_calls>>
    /\ UNCHANGED <<nameVars, genVars, mergeVars, detVars, parseVars, allVars, bookVars,
                   quarterVars, fileVars, requestVars, titleVars>>

\* upload_files() calls merge_quarters_into_sf10 with the sorted grading
\* files; the call returns the output path or raises
UploadMerged ==
    /\ upc = "start"
    /\ LET st == ClassifyFiles([grading_files |-> <<>>, existing_sf10 |-> <<>>,
                                upload_folder |-> {}, response |-> NoResponse], uploads, 1)
       IN  /\ st.response = NoResponse
           /\ st.grading_files # <<>>
           /\ upload_folder' = st.upload_folder
           /\ merge_calls' = Append(merge_calls,
                                    [grading_files |-> SortByQuarter(st.grading_files),
                                     existing_sf10 |-> st.existing_sf10])
    /\ \E returned \in BOOLEAN :
          response' = IF returned THEN Success ELSE ServerError("merge")
    /\ upc' = "answered"
    /\ UNCHANGED <<template, uploads>>
    /\ UNCHANGED <<nameVars, genVars, mergeVars, detVars, parseVars, allVars, bookVars,
                   quarterVars, fileVars, requestVars, titleVars>>

----------------------------------------------------------------------------
(* Files on disk: the paths the generator and the merge engine read and write *)

\* os.path.join(dir, name)
Path(dir, name) == [dir |-> dir, name |-> name]

Txt_xlsx == <<".", "x", "l", "s", "x">>
Txt_SF10 == <<"S", "F", "1", "0">>
Txt_SF10_All_Students ==
    <<"S", "F", "1", "0", "_", "A", "l", "l", "_", "S", "t", "u", "d", "e", "n", "t", "s">>

\* 'assets/docs/SF10.xlsx', the template of the web application and of main()
TEMPLATE_PATH == Path("assets/docs", Txt_SF10 \o Txt_xlsx)

\* app.config['UPLOAD_FOLDER']: one directory made when the module is loaded
UPLOAD_FOLDER == "uploads"

\* datetime.now().strftime('%Y%m%d_%H%M%S'): one text for each second of the clock
TimestampText(now) == Digits(now)

\* the default output_path of merge_quarters_into_sf10
DefaultOutputPath(now) ==
    Path(UPLOAD_FOLDER, Txt_SF10_All_Students \o <<"_">> \o TimestampText(now) \o Txt_xlsx)

\* shutil.copy without its check that source and destination are one file
Mutant_ShutilCopy_SameFileAllowed(fs, src, dst) ==
    [ok |-> TRUE, files |-> SaveAt(fs, dst, fs[src])]

\* shutil.copy(src, dst): [ok, files]; SameFileError when both name one file
ShutilCopy(fs, src, dst) ==
    IF src = dst THEN [ok |-> FALSE, files |-> fs]
    ELSE [ok |-> TRUE, files |-> SaveAt(fs, dst, fs[src])]

\* generate_sf10_for_student on the files: the template is loaded, populated
\* in memory and saved at output_path; [ok, files]
GenerateStudentFile(fs, template_path, output_dir, stu, qtr, profiles) ==
    LET wb == fs[template_path]
        st == Populate([ws |-> wb[1], ok |-> TRUE], stu, qtr, profiles)
        output_path == Path(output_dir, OutputFilename(stu.name))
    IN  IF st.ok THEN [ok |-> TRUE, files |-> SaveAt(fs, output_path, <<SaveSheet(st.ws)>>)]
        ELSE [ok |-> FALSE, files |-> fs]

\* output_wb.save(output_path) of the single workbook r = [ok, wb]: when the
\* save raises, output_path keeps the copy of the template
SaveBook(fs, output_path, r) == [ok |-> r.ok, files |-> SaveAt(fs, output_path, r.wb)]

\* lines 307-438 on the copy of the template at output_path
FillBook(copied, output_path, studs, qtr, profiles) ==
    IF ~copied.ok THEN copied
    ELSE SaveBook(copied.files, output_path,
                  generate_single_workbook_all_students(
                      copied.files[output_path][1], studs, qtr, profiles))

\* generate_single_workbook_all_students on the files: the template is copied
\* to output_path, the copy is loaded, filled and saved at output_path
GenerateBookFile(fs, template_path, output_dir, output_filename, studs, qtr, profiles) ==
    FillBook(ShutilCopy(fs, template_path, Path(output_dir, output_filename)),
             Path(output_dir, output_filename), studs, qtr, profiles)

\* the student loop of one pair, lines 144-173, over the rows of one grading
\* file; r is [ok, wb], the workbook after the rows before
RECURSIVE MergeRecords(_, _, _)
MergeRecords(r, studs, qtr) ==
    IF studs = <<>> \/ ~r.ok THEN r
    ELSE MergeRecords(MergeStudent(r.wb, Head(studs), qtr), Tail(studs), qtr)

\* the pair loop, line 133, over pairs [students, quarter]
RECURSIVE MergePairs(_, _)
MergePairs(r, pairs) ==
    IF pairs = <<>> \/ ~r.ok THEN r
    ELSE MergePairs(MergeRecords(r, Head(pairs).students, Head(pairs).quarter), Tail(pairs))

\* base_wb.save(output_path), line 176, when no merge step raised
SaveMergedFile(fs, output_path, merged) ==
    IF merged.ok THEN [ok |-> TRUE, files |-> SaveAt(fs, output_path, SaveWorkbook(merged.wb))]
    ELSE [ok |-> FALSE, files |-> fs]

\* lines 113 or 128 and 133-176: the base workbook at output_path is loaded,
\* the pairs are merged into it and it is saved
MergeOnto(base, output_path, pairs) ==
    IF ~base.ok THEN base
    ELSE SaveMergedFile(base.files, output_path,
                        MergePairs([ok |-> TRUE, wb |-> base.files[output_path]], pairs))

\* merge_quarters_into_sf10(grading_files, existing_sf10_path) on the files,
\* called at second now; existing_sf10_path is <<path>> or <<>> (None)
MergeFiles(fs, pairs, existing_sf10_path, now) ==
    IF existing_sf10_path # <<>> /\ existing_sf10_path[1] \in DOMAIN fs
    THEN MergeOnto(ShutilCopy(fs, existing_sf10_path[1], DefaultOutputPath(now)),
                   DefaultOutputPath(now), pairs)
    ELSE MergeOnto(GenerateBookFile(fs, TEMPLATE_PATH, UPLOAD_FOLDER,
                                    DefaultOutputPath(now).name, Head(pairs).students,
                                    Head(pairs).quarter, NoProfiles),
                   DefaultOutputPath(now), Tail(pairs))

----------------------------------------------------------------------------
(* Inputs of the file operations *)

MaxClock == 2        \* seconds of the clock at which a merge can start

OutputDirs == {"output", "assets/docs", UPLOAD_FOLDER}

OutputFilenames == {Txt_SF10_All_Students \o Txt_xlsx, Txt_SF10 \o Txt_xlsx}

\* the names under which an uploaded SF10 workbook is saved
ExistingNames ==
    {Txt_SF10_All_Students \o Txt_xlsx, Txt_SF10_All_Students \o <<"_", "1">> \o Txt_xlsx}

\* the rows of the grading file of quarter q
MergeRows(q) ==
    [k \in 1..(IF MaxStudents < Len(MergeNames) THEN MaxStudents ELSE Len(MergeNames)) |->
        [name |-> MergeNames[k],
         grades |-> GradeVec(20 * q + 10 * k + 1, 20 * q + 10 * k + 2, 20 * q + 10 * k + 3,
                             20 * q + 10 * k + 4, 20 * q + 10 * k + 5)]]

NoCall ==
    [op |-> "none", output_dir |-> "", output_filename |-> <<>>, students |-> <<>>,
     quarters |-> <<>>, existing |-> <<>>, now |-> 0]

\* the calls of the three operations: every call names its operation and the
\* arguments that operation reads; existing is <<>> or <<name>>, the name of
\* the uploaded SF10 workbook
FileCalls ==
    {[NoCall EXCEPT !.op = "generate_sf10_for_student", !.output_dir = d,
                    !.students = <<stu>>, !.quarters = <<q>>] :
        d \in OutputDirs, stu \in BatchStudents, q \in Quarters}
    \cup
    {[NoCall EXCEPT !.op = "generate_single_workbook_all_students", !.output_dir = d,
                    !.output_filename = f, !.students = studs, !.quarters = <<q>>] :
        d \in OutputDirs, f \in OutputFilenames, studs \in GradingSheets(1), q \in {1, 2}}
    \cup
    {[NoCall EXCEPT !.op = "merge_quarters_into_sf10", !.quarters = qs, !.existing = e,
                    !.now = t] :
        qs \in QuarterLists,
        e \in {<<>>} \cup {<<n>> : n \in ExistingNames},
        t \in 1..MaxClock}

\* the path the call is given to write
OutputPathOf(c) ==
    CASE c.op = "generate_sf10_for_student" ->
             Path(c.output_dir, OutputFilename(c.students[1].name))
      [] c.op = "generate_single_workbook_all_students" ->
             Path(c.output_dir, c.output_filename)
      [] OTHER -> DefaultOutputPath(c.now)

\* where upload_files saved the uploaded SF10 workbook of the call
ExistingPathOf(c) == Path(UPLOAD_FOLDER, c.existing[1])

FileIdle ==
    /\ disk = EmptyDir
    /\ call = NoCall
    /\ fpc = "idle"

\* the template is on disk, and so is the uploaded SF10 workbook of a merge
InitFiles ==
    /\ template \in MergeTemplates
    /\ call \in FileCalls
    /\ disk \in IF call.existing = <<>> THEN {SaveAt(EmptyDir, TEMPLATE_PATH, <<template>>)}
                ELSE {SaveAt(SaveAt(EmptyDir, TEMPLATE_PATH, <<template>>),
                             ExistingPathOf(call), b) : b \in ExistingBooks}
    /\ fpc = "start"

\* the call ends: the files are as the operation left them
Ends(r) ==
    /\ disk' = r.files
    /\ fpc' = IF r.ok THEN "done" ELSE "raised"
    /\ UNCHANGED <<template, call>>
    /\ UNCHANGED <<nameVars, genVars, mergeVars, detVars, parseVars, allVars, bookVars,
                   quarterVars, uploadVars, requestVars, titleVars>>

\* generate_sf10_for_student(student, quarter) returns or raises
RunGenerateStudent ==
    /\ fpc = "start"
    /\ call.op = "generate_sf10_for_student"
    /\ \E r \in {GenerateStudentFile(disk, TEMPLATE_PATH, call.output_dir, call.students[1],
                                     call.quarters[1], NoProfiles)} : Ends(r)

\* generate_single_workbook_all_students(quarter, output_filename) returns or raises
RunGenerateBook ==
    /\ fpc = "start"
    /\ call.op = "generate_single_workbook_all_students"
    /\ \E r \in {GenerateBookFile(disk, TEMPLATE_PATH, call.output_dir, call.output_filename,
                                  call.students, call.quarters[1], NoProfiles)} : Ends(r)

\* merge_quarters_into_sf10(grading_files, existing_sf10_path) returns or raises
RunMerge ==
    /\ fpc = "start"
    /\ call.op = "merge_quarters_into_sf10"
    /\ \E r \in {MergeFiles(disk, [i \in 1..Len(call.quarters) |->
                                     [students |-> MergeRows(call.quarters[i]),
                                      quarter |-> call.quarters[i]]],
                            IF call.existing = <<>> THEN <<>> ELSE <<ExistingPathOf(call)>>,
                            call.now)} : Ends(r)

----------------------------------------------------------------------------
(* Concurrent requests: upload_files in two threads of one server process *)

MaxRequests == 2     \* most requests handled at the same time

\* the names of the grading sheets the clients upload
RequestNames == {Txt_1st, <<"1", "?", "s", "t">>, <<"x", " ", "2", "N", "D">>}

\* a request before its first step: the names of its files, how many of them
\* are saved and read, its output path, the paths it has read or written, and
\* the requests whose bytes it has read
NewRequest(names) ==
    [names |-> names, saved |-> 0, checked |-> 0, output |-> <<>>, touched |-> {},
     read_from |-> {}, pc |-> "files"]

\* line 202 for the next file of request r: file.save(filepath) with
\* filepath = os.path.join(UPLOAD_FOLDER, secure_filename(file.filename))
SaveUpload(r) ==
    /\ inflight[r].pc = "files"
    /\ inflight[r].saved = inflight[r].checked
    /\ inflight[r].saved < Len(inflight[r].names)
    /\ LET filepath == Path(UPLOAD_FOLDER,
                            secure_filename(inflight[r].names[inflight[r].saved + 1]))
       IN  /\ folder' = SaveAt(folder, filepath, r)
           /\ inflight' = [inflight EXCEPT ![r].saved = @ + 1,
                                           ![r].touched = @ \cup {filepath}]
    /\ UNCHANGED clock
    /\ UNCHANGED <<template, nameVars, genVars, mergeVars, detVars, parseVars, allVars,
                   bookVars, quarterVars, uploadVars, fileVars, titleVars>>

\* lines 206-216 for the file just saved: is_sf10_file(filepath) loads the
\* file at filepath, whoever wrote it last; after the last file the request
\* goes on to the merge
CheckUpload(r) ==
    /\ inflight[r].pc = "files"
    /\ inflight[r].checked < inflight[r].saved
    /\ LET filepath == Path(UPLOAD_FOLDER,
                            secure_filename(inflight[r].names[inflight[r].checked + 1]))
       IN  inflight' = [inflight EXCEPT
                           ![r].checked = @ + 1,
                           ![r].read_from = @ \cup {folder[filepath]},
                           ![r].pc = IF inflight[r].checked + 1 = Len(inflight[r].names)
                                     THEN "merge" ELSE "files"]
    /\ UNCHANGED <<folder, clock>>
    /\ UNCHANGED <<template, nameVars, genVars, mergeVars, detVars, parseVars, allVars,
                   bookVars, quarterVars, uploadVars, fileVars, titleVars>>

\* lines 104-130: output_path is named after the second of the call, the first
\* grading file is read and the base workbook is written to output_path
StartMerge(r) ==
    /\ inflight[r].pc = "merge"
    /\ LET output_path == DefaultOutputPath(clock)
           first_file == Path(UPLOAD_FOLDER, secure_filename(inflight[r].names[1]))
       IN  /\ folder' = SaveAt(folder, output_path, r)
           /\ inflight' = [inflight EXCEPT ![r].output = <<output_path>>,
                                           ![r].touched = @ \cup {output_path},
                                           ![r].read_from = @ \cup {folder[first_file]},
                                           ![r].pc = "merging"]
    /\ UNCHANGED clock
    /\ UNCHANGED <<template, nameVars, genVars, mergeVars, detVars, parseVars, allVars,
                   bookVars, quarterVars, uploadVars, fileVars, titleVars>>

\* lines 133-176 and 236-242: the other grading files are read, the workbook at
\* output_path is loaded, merged and saved, and the request is answered
FinishMerge(r) ==
    /\ inflight[r].pc = "merging"
    /\ LET output_path == inflight[r].output[1]
           rest == {Path(UPLOAD_FOLDER, secure_filename(inflight[r].names[k])) :
                       k \in 2..Len(inflight[r].names)}
       IN  /\ folder' = SaveAt(folder, output_path, r)
           /\ inflight' = [inflight EXCEPT
                              ![r].read_from = @ \cup {folder[p] : p \in rest \cup {output_path}},
                              ![r].pc = "answered"]
    /\ UNCHANGED clock
    /\ UNCHANGED <<template, nameVars, genVars, mergeVars, detVars, parseVars, allVars,
                   bookVars, quarterVars, uploadVars, fileVars, titleVars>>

\* a second of the clock passes
Tick ==
    /\ clock < MaxClock
    /\ clock' = clock + 1
    /\ UNCHANGED <<inflight, folder>>
    /\ UNCHANGED <<template, nameVars, genVars, mergeVars, detVars, parseVars, allVars,
                   bookVars, quarterVars, uploadVars, fileVars, titleVars>>

RequestIdle ==
    /\ inflight = <<>>
    /\ folder = EmptyDir
    /\ clock = 0

\* MaxRequests requests have arrived; UPLOAD_FOLDER is the empty directory
\* tempfile.mkdtemp() made
InitRequests ==
    /\ inflight \in [1..MaxRequests -> {NewRequest(names) :
                        names \in SeqsUpTo(RequestNames, MaxUploads) \ {<<>>}}]
    /\ folder = EmptyDir
    /\ clock = 1

----------------------------------------------------------------------------
(* A sheet is created for a student and searched by a later merge step *)

\* lines 326-327 of generate_single_workbook_all_students for one student,
\* and the workbook as saved: the template sheet is copied, the copy is
\* titled and the template sheet is removed
SheetCreatedFor(tmpl, student_name) ==
    LET copied == CopyWorksheet(<<tmpl>>, tmpl)
    IN  SaveWorkbook(Tail(SetTitle(copied, Len(copied), SheetNameFor(student_name))))

TitleLastNames ==
    { <<>>, <<"A">>, <<"A", "B">>, <<" ", "A", " ">>, <<"D", "E", " ", "L", "A">>,
      <<"?">>, <<"B", "?">>, <<"[", "A", "]">>, <<"D", "/", "E">>, <<"O", ":", "X">>,
      <<"V", "I", "L", "L", "A", "N", "U", "E", "V", "A", "S", "A", "N", "T", "O">>,
      <<"V", "I", "L", "L", "A", "N", "U", "E", "V", "A", "S", "A", "N", "T", "O", "S">>,
      <<"V", "I", "L", "L", "A", "N", "U", "E", "V", "A", "-", "S", "A", "N", "T", "O", "S">> }

TitleFirstNames ==
    { <<>>, <<"x">>, <<" ", "y", " ", "z">>, <<"*">>,
      <<"C", "H", "R", "I", "S", "T", "O", "P", "H", "E", "R">> }

\* the names of the student rows: "LAST", "LAST,FIRST" and "LAST,FIRST,M"
TitleNames ==
    TitleLastNames
    \cup {l \o <<",">> \o f : l \in TitleLastNames, f \in TitleFirstNames}
    \cup {l \o <<",">> \o f \o <<",", "M">> : l \in TitleLastNames, f \in TitleFirstNames}

TitleIdle ==
    /\ roster_name = <<>>
    /\ sheet_title = <<>>
    /\ found = FALSE
    /\ tpc = "idle"

InitTitle ==
    /\ template = TemplateSheet(None, {})
    /\ roster_name \in TitleNames
    /\ sheet_title = <<>>
    /\ found = FALSE
    /\ tpc = "start"

\* the sheet is created from the name, and a merge step for a record with the
\* same name searches the saved workbook
CreateAndSearch ==
    /\ tpc = "start"
    /\ \E wb \in {SheetCreatedFor(template, roster_name)} :
          /\ sheet_title' = wb[1].title
          /\ found' = (MatchingSheet(wb, [name |-> roster_name]) # <<>>)
    /\ tpc' = "done"
    /\ UNCHANGED <<template, roster_name>>
    /\ UNCHANGED <<nameVars, genVars, mergeVars, detVars, parseVars, allVars, bookVars,
                   quarterVars, uploadVars, fileVars, requestVars>>

----------------------------------------------------------------------------
(* Specifications *)

NextName == NormalizeOnce \/ NormalizeTwice

InitSpecName ==
    /\ InitName
    /\ template = TemplateSheet(None, {})
    /\ GenIdle
    /\ MergeIdle
    /\ DetectIdle
    /\ ParseIdle
    /\ AllIdle
    /\ BookIdle
    /\ QuarterIdle
    /\ UploadIdle
    /\ FileIdle
    /\ RequestIdle
    /\ TitleIdle

SpecName == InitSpecName /\ [][NextName]_vars

NextGen == GenerateReturns \/ GenerateRaises

InitSpecGen ==
    /\ InitGen
    /\ NameIdle
    /\ MergeIdle
    /\ DetectIdle
    /\ ParseIdle
    /\ AllIdle
    /\ BookIdle
    /\ QuarterIdle
    /\ UploadIdle
    /\ FileIdle
    /\ RequestIdle
    /\ TitleIdle

SpecGen == InitSpecGen /\ [][NextGen]_vars

NextMerge ==
    \/ StartExisting
    \/ StartFresh
    \/ LoadPair
    \/ MergeWrites
    \/ MergeSkips
    \/ MergeRaises
    \/ SaveMerged

InitSpecMerge ==
    /\ InitMerge
    /\ NameIdle
    /\ GenIdle
    /\ DetectIdle
    /\ ParseIdle
    /\ AllIdle
    /\ BookIdle
    /\ QuarterIdle
    /\ UploadIdle
    /\ FileIdle
    /\ RequestIdle
    /\ TitleIdle

SpecMerge == InitSpecMerge /\ [][NextMerge]_vars

NextRemerge ==
    \/ StartExisting
    \/ LoadPair
    \/ MergeWrites
    \/ MergeSkips
    \/ MergeRaises
    \/ SaveMerged
    \/ MergeAgain

InitSpecRemerge ==
    /\ InitRemerge
    /\ NameIdle
    /\ GenIdle
    /\ DetectIdle
    /\ ParseIdle
    /\ AllIdle
    /\ BookIdle
    /\ QuarterIdle
    /\ UploadIdle
    /\ FileIdle
    /\ RequestIdle
    /\ TitleIdle

SpecRemerge == InitSpecRemerge /\ [][NextRemerge]_vars

NextDetect == GenerateForDetect \/ Detect

InitSpecDetect ==
    /\ InitDetect
    /\ NameIdle
    /\ GenIdle
    /\ MergeIdle
    /\ ParseIdle
    /\ AllIdle
    /\ BookIdle
    /\ QuarterIdle
    /\ UploadIdle
    /\ FileIdle
    /\ RequestIdle
    /\ TitleIdle

SpecDetect == InitSpecDetect /\ [][NextDetect]_vars

NextParse == ReadReturns \/ ReadRaises

InitSpecParse ==
    /\ InitParse
    /\ template = TemplateSheet(None, {})
    /\ NameIdle
    /\ GenIdle
    /\ MergeIdle
    /\ AllIdle
    /\ DetectIdle
    /\ BookIdle
    /\ QuarterIdle
    /\ UploadIdle
    /\ FileIdle
    /\ RequestIdle
    /\ TitleIdle

SpecParse == InitSpecParse /\ [][NextParse]_vars

NextAll == GenerateAll

InitSpecAll ==
    /\ InitAll
    /\ NameIdle
    /\ MergeIdle
    /\ DetectIdle
    /\ ParseIdle
    /\ BookIdle
    /\ QuarterIdle
    /\ UploadIdle
    /\ FileIdle
    /\ RequestIdle
    /\ TitleIdle

SpecAll == InitSpecAll /\ [][NextAll]_vars

NextBook ==
    \/ GenerateBook
    \/ GenerateBookRaises

InitSpecBook ==
    /\ InitBook
    /\ NameIdle
    /\ MergeIdle
    /\ DetectIdle
    /\ ParseIdle
    /\ AllIdle
    /\ QuarterIdle
    /\ UploadIdle
    /\ FileIdle
    /\ RequestIdle
    /\ TitleIdle

SpecBook == InitSpecBook /\ [][NextBook]_vars

NextQuarter == Identify

InitSpecQuarter ==
    /\ InitQuarter
    /\ template = TemplateSheet(None, {})
    /\ NameIdle
    /\ GenIdle
    /\ MergeIdle
    /\ DetectIdle
    /\ ParseIdle
    /\ AllIdle
    /\ BookIdle
    /\ UploadIdle
    /\ FileIdle
    /\ RequestIdle
    /\ TitleIdle

SpecQuarter == InitSpecQuarter /\ [][NextQuarter]_vars

NextUpload ==
    \/ UploadRejected
    \/ UploadMerged

InitSpecUpload ==
    /\ InitUpload
    /\ template = TemplateSheet(None, {})
    /\ NameIdle
    /\ GenIdle
    /\ MergeIdle
    /\ DetectIdle
    /\ ParseIdle
    /\ AllIdle
    /\ BookIdle
    /\ QuarterIdle
    /\ FileIdle
    /\ RequestIdle
    /\ TitleIdle

SpecUpload == InitSpecUpload /\ [][NextUpload]_vars

NextFiles ==
    \/ RunGenerateStudent
    \/ RunGenerateBook
    \/ RunMerge

InitSpecFiles ==
    /\ InitFiles
    /\ NameIdle
    /\ GenIdle
    /\ MergeIdle
    /\ DetectIdle
    /\ ParseIdle
    /\ AllIdle
    /\ BookIdle
    /\ QuarterIdle
    /\ UploadIdle
    /\ RequestIdle
    /\ TitleIdle

SpecFiles == InitSpecFiles /\ [][NextFiles]_vars

NextRequests ==
    \/ \E r \in DOMAIN inflight : SaveUpload(r)
    \/ \E r \in DOMAIN inflight : CheckUpload(r)
    \/ \E r \in DOMAIN inflight : StartMerge(r)
    \/ \E r \in DOMAIN inflight : FinishMerge(r)
    \/ Tick

InitSpecRequests ==
    /\ InitRequests
    /\ template = TemplateSheet(None, {})
    /\ NameIdle
    /\ GenIdle
    /\ MergeIdle
    /\ DetectIdle
    /\ ParseIdle
    /\ AllIdle
    /\ BookIdle
    /\ QuarterIdle
    /\ UploadIdle
    /\ FileIdle
    /\ TitleIdle

SpecRequests == InitSpecRequests /\ [][NextRequests]_vars

NextTitle == CreateAndSearch

InitSpecTitle ==
    /\ InitTitle
    /\ NameIdle
    /\ GenIdle
    /\ MergeIdle
    /\ DetectIdle
    /\ ParseIdle
    /\ AllIdle
    /\ BookIdle
    /\ QuarterIdle
    /\ UploadIdle
    /\ FileIdle
    /\ RequestIdle

SpecTitle == InitSpecTitle /\ [][NextTitle]_vars

----------------------------------------------------------------------------
(* Properties of the name normaliser (SpecName) *)

\* C8: normalising a name that is already normalised changes nothing:
\* _normalize_name(_normalize_name(x)) = _normalize_name(x) for every string x.
C8_NormalizeIdempotent == npc = "twice" => renorm = norm

\* a name with a comma that the first normalisation rewrote, normalised twice
C8_Witness ==
    /\ npc = "twice"
    /\ norm # Upper(raw)
    /\ \E i \in 1..Len(norm) : norm[i] = ","
    /\ \E i \in 1..Len(norm) : norm[i] = "A"

NoLowercase(s) == \A i \in 1..Len(s) : ~IsLowerChar(s[i])

NoOuterWhitespace(s) == s = <<>> \/ (~IsSpace(s[1]) /\ ~IsSpace(s[Len(s)]))

\* the comma at position i is followed by one space and then by no further
\* whitespace
OneSpaceAfter(s, i) ==
    /\ i + 1 <= Len(s)
    /\ s[i + 1] = " "
    /\ i + 2 <= Len(s) => ~IsSpace(s[i + 2])

\* C9 as the claim states it: the result has no lowercase letter, no leading
\* or trailing whitespace, and every comma in it, a comma that ends the input
\* included, is followed by exactly one space.
C9_EveryCommaSpaced ==
    npc = "once" =>
        /\ NoLowercase(norm)
        /\ NoOuterWhitespace(norm)
        /\ \A i \in 1..Len(norm) : norm[i] = "," => OneSpaceAfter(norm, i)

\* C9 as the code has it: the result has no lowercase letter, no leading or
\* trailing whitespace, and every comma that is not the last character of the
\* result is followed by exactly one space; a comma that ends the result is
\* followed by nothing, the final strip having removed its space.
C9_InnerCommaSpaced ==
    npc = "once" =>
        /\ NoLowercase(norm)
        /\ NoOuterWhitespace(norm)
        /\ \A i \in 1..(Len(norm) - 1) : norm[i] = "," => OneSpaceAfter(norm, i)
        /\ \A i \in 1..Len(raw) :
             (raw[i] = "," /\ \A j \in (i + 1)..Len(raw) : IsSpace(raw[j]))
                 => (norm # <<>> /\ norm[Len(norm)] = ",")

\* a lowercase name with two adjacent commas and text after them
C9_Witness ==
    /\ npc = "once"
    /\ \E i \in 1..(Len(raw) - 2) : raw[i] = "," /\ raw[i + 1] = "," /\ raw[i + 2] = "a"
    /\ raw[1] = "a"

----------------------------------------------------------------------------
(* Properties of the template populator (SpecGen) *)

\* the form's grade grid as a reader of the sheet sees it (1-indexed)
FormRow(summary_subject) ==
    CASE summary_subject = "LANGUAGE" -> 30
      [] summary_subject = "READING AND LITERACY" -> 31
      [] summary_subject = "MATH" -> 32
      [] summary_subject = "GMRC" -> 33
      [] summary_subject = "MAKABANSA" -> 34

FormColumn(q) == 10 + q

\* C1: after generate_sf10_for_student(record, q) the five subject cells of
\* quarter q's column hold the record's five grades and the five subject cells
\* of each other quarter column read back empty, whatever the template held.
C1_OnlyQuarterFilled ==
    gpc = "done" =>
        \A sub \in SummarySubjects :
            /\ outfile[1].cells[<<FormRow(sub), FormColumn(quarter)>>] = student.grades[sub]
            /\ \A q \in (1..4) \ {quarter} :
                 outfile[1].cells[<<FormRow(sub), FormColumn(q)>>] = None

\* a template whose grade grid was full of values has been populated
C1_Witness ==
    /\ gpc = "done"
    /\ \A co \in GradeCells : template.cells[co] = Num(99)
    /\ student.grades["LANGUAGE"] = Num(85)
    /\ quarter = 2

CommasOf(s) == {i \in 1..Len(s) : s[i] = ","}

\* the position of the n-th comma of s (n >= 1)
NthComma(s, n) ==
    CHOOSE i \in CommasOf(s) : Cardinality({j \in CommasOf(s) : j <= i}) = n

\* the text between the k-th and the (k+1)-th comma of s (k >= 0), the empty
\* string when s has fewer than k commas
FieldText(s, k) ==
    IF Cardinality(CommasOf(s)) < k THEN <<>>
    ELSE LET lo == IF k = 0 THEN 1 ELSE NthComma(s, k) + 1
             hi == IF Cardinality(CommasOf(s)) > k THEN NthComma(s, k + 1) - 1 ELSE Len(s)
         IN  SubSeq(s, lo, hi)

\* t from its first to its last character that is no whitespace
Trimmed(t) ==
    LET ns == {i \in 1..Len(t) : ~IsSpace(t[i])}
    IN  IF ns = {} THEN <<>>
        ELSE SubSeq(t, CHOOSE i \in ns : \A j \in ns : i <= j,
                       CHOOSE i \in ns : \A j \in ns : j <= i)

\* a saved cell holds the text t: the empty string is stored as an empty cell
HoldsText(v, t) == IF t = <<>> THEN v = None ELSE v = Str(t)

\* C10: the last, first and middle name cells hold the trimmed comma-separated
\* parts 0, 1 and 2 of the name, the empty string for an absent part; further
\* parts go nowhere, and a name with fewer than three parts raises no error.
C10_NameFields ==
    /\ gpc = "done" =>
         /\ HoldsText(outfile[1].cells[<<9, 5>>], Trimmed(FieldText(student.name, 0)))
         /\ HoldsText(outfile[1].cells[<<9, 17>>], Trimmed(FieldText(student.name, 1)))
         /\ HoldsText(outfile[1].cells[<<9, 42>>], Trimmed(FieldText(student.name, 2)))
         /\ \A co \in ProfileCells \cup LabelCells :
              learners_profile_data = NoProfiles =>
                  outfile[1].cells[co] = template.cells[co]
    /\ (template.readonly = {} /\ learners_profile_data = NoProfiles) => gpc # "raised"

\* a name of two parts, the first with a blank before it, has been written
C10_Witness ==
    /\ gpc = "done"
    /\ Cardinality(CommasOf(student.name)) = 1
    /\ student.name # <<>> /\ IsSpace(student.name[1])
    /\ outfile[1].cells[<<9, 5>>] # None
    /\ outfile[1].cells[<<9, 42>>] = None

----------------------------------------------------------------------------
(* Properties of the merge engine (SpecMerge, SpecRemerge) *)

\* the five grade cells of quarter q's column
QuarterCells(q) == {<<FormRow(sub), FormColumn(q)>> : sub \in SummarySubjects}

\* C2: a merge step for quarter q never changes a grade cell of another
\* quarter, and saving keeps every grade cell, so what the quarter-1 step
\* wrote is still in the quarter-1 column after the quarter-2 step.
C2_OtherQuartersKept ==
    [][ /\ mpc = "records" =>
             /\ Len(base_wb') = Len(base_wb)
             /\ \A i \in 1..Len(base_wb) :
                  \A q \in (1..4) \ {Head(grading_files)} :
                     \A co \in QuarterCells(q) :
                        base_wb'[i].cells[co] = base_wb[i].cells[co]
        /\ (mpc = "pairs" /\ mpc' = "done") =>
             /\ Len(output'[1]) = Len(base_wb)
             /\ \A i \in 1..Len(base_wb) :
                  \A co \in GradeCells : output'[1][i].cells[co] = base_wb[i].cells[co]
      ]_vars

\* an uploaded SF10 into which a quarter-1 and then a quarter-2 sheet of the
\* same student were merged: both columns hold that student's grades
C2_Witness ==
    /\ mpc = "done"
    /\ existing_sf10 # <<>>
    /\ \E i \in 1..Len(output[1]) :
          /\ output[1][i].cells[<<30, 11>>] = Num(31)
          /\ output[1][i].cells[<<34, 11>>] = Num(35)
          /\ output[1][i].cells[<<30, 12>>] = Num(51)
          /\ output[1][i].cells[<<30, 13>>] = Num(60)

\* C3: merging the same (grading sheet, quarter) pair again into the workbook
\* that holds the result of merging it leaves every cell of every sheet as it
\* was after the first merge, and the second merge ends as the first did.
C3_MergeIdempotent ==
    /\ (mpc = "done" /\ first_output # <<>>) => output = first_output
    /\ first_output # <<>> => mpc # "raised"

\* the first merge wrote grades, and the second merge is done
C3_Witness ==
    /\ mpc = "done"
    /\ first_output # <<>>
    /\ first_output[1] \notin ExistingBooks
    /\ Len(again[1].students) = 2

\* no sheet title contains the record's last name
InNoTitle(wb, stu) ==
    \A i \in 1..Len(wb) : ~Contains(wb[i].title, Trimmed(FieldText(stu.name, 0)))

\* C4: a record whose last name is in no sheet title changes no cell and raises
\* no error: the loop goes on to the next record or the next pair, and when
\* the pairs are used up the workbook is saved.
C4_UnmatchedSkipped ==
    [][ /\ (mpc = "records" /\ InNoTitle(base_wb, merge_student[1])) =>
             /\ base_wb' = base_wb
             /\ output' = output
             /\ left' = left - 1
             /\ mpc' = (IF left = 1 THEN "pairs" ELSE "records")
             /\ grading_files' = (IF left = 1 THEN Tail(grading_files) ELSE grading_files)
        /\ (mpc = "pairs" /\ grading_files = <<>>) =>
             /\ mpc' = "done"
             /\ output' # <<>>
             /\ Len(output'[1]) = Len(base_wb)
      ]_vars

\* a record was skipped with a warning, another was written, and the workbook
\* was saved
C4_Witness ==
    /\ mpc = "done"
    /\ warned # {}
    /\ existing_sf10 # <<>>
    /\ output # existing_sf10

\* the sheets whose title contains the record's last name
TitledFor(wb, stu) ==
    {i \in 1..Len(wb) : Contains(wb[i].title, Trimmed(FieldText(stu.name, 0)))}

\* C20: a merge step for a record changes no cell but the five subject cells
\* of the quarter's column in the matched sheet, the first sheet whose title
\* contains the record's last name: the name cells, the profile cells and the
\* grade cells of the other three quarters of that sheet, every cell of every
\* other sheet, and the number, order, titles and merged ranges of the sheets
\* stay as they are.
C20_MergeFrame ==
    [][ mpc = "records" =>
          LET titled == TitledFor(base_wb, merge_student[1])
          IN  /\ Len(base_wb') = Len(base_wb)
              /\ \A i \in 1..Len(base_wb) :
                    IF i \in titled /\ \A j \in titled : i <= j
                    THEN /\ [base_wb'[i] EXCEPT !.cells = base_wb[i].cells] = base_wb[i]
                         /\ \A co \in Coords \ QuarterCells(Head(grading_files)) :
                               base_wb'[i].cells[co] = base_wb[i].cells[co]
                    ELSE base_wb'[i] = base_wb[i]
      ]_vars

\* a record was merged into the second sheet of an uploaded SF10 and another
\* record is next: the quarter's column of that sheet holds the record's
\* grades, its names and the first sheet are as uploaded
C20_Witness ==
    /\ mpc = "records"
    /\ existing_sf10 # <<>>
    /\ left = 1
    /\ base_wb[1] = existing_sf10[1][1]
    /\ base_wb[2] # existing_sf10[1][2]
    /\ base_wb[2].cells[<<9, 5>>] = existing_sf10[1][2].cells[<<9, 5>>]
    /\ \E stu \in MergeStudents(Head(grading_files)) :
          /\ stu # merge_student[1]
          /\ base_wb[2].cells[<<30, FormColumn(Head(grading_files))>>] = stu.grades["LANGUAGE"]

\* C21: a merge step that raises no error writes the record's five grades into
\* the quarter's column of the first sheet, in sheet order, whose title
\* contains the record's trimmed last name, and leaves every other sheet whose
\* title contains it as it is.
C21_FirstTitledSheetWritten ==
    [][ (mpc = "records" /\ mpc' # "raised") =>
          LET titled == TitledFor(base_wb, merge_student[1])
          IN  \A i \in titled :
                 IF \A j \in titled : i <= j
                 THEN \A sub \in SummarySubjects :
                         base_wb'[i].cells[<<FormRow(sub), FormColumn(Head(grading_files))>>]
                             = merge_student[1].grades[sub]
                 ELSE base_wb'[i] = base_wb[i]
      ]_vars

\* the record of a student named A was merged into the first sheet of an
\* uploaded workbook whose two titles both contain "A", and the second sheet
\* is as uploaded
C21_Witness ==
    /\ mpc = "records"
    /\ existing_sf10 # <<>>
    /\ left = 1
    /\ \A i \in 1..2 : Contains(base_wb[i].title, <<"A">>)
    /\ base_wb[2] = existing_sf10[1][2]
    /\ \E stu \in MergeStudents(Head(grading_files)) :
          /\ stu.name = <<"A", ",", "x">>
          /\ \A sub \in SummarySubjects :
                base_wb[1].cells[<<FormRow(sub), FormColumn(Head(grading_files))>>]
                    = stu.grades[sub]

OwnSheets(wb, stu) ==
    {i \in 1..Len(wb) :
        /\ HoldsText(wb[i].cells[<<9, 5>>], Trimmed(FieldText(stu.name, 0)))
        /\ HoldsText(wb[i].cells[<<9, 17>>], Trimmed(FieldText(stu.name, 1)))}

\* C29 as the claim states it: in a workbook that has a sheet for the record's
\* student, a merge step changes no sheet but one of that student.
C29_WrittenIntoOwnSheet ==
    [][ (mpc = "records" /\ OwnSheets(base_wb, merge_student[1]) # {}) =>
          \A i \in 1..Len(base_wb) :
              base_wb'[i] # base_wb[i] => i \in OwnSheets(base_wb, merge_student[1])
      ]_vars

\* C29: in a workbook that has a sheet for the record's student, a merge step
\* changes no sheet but the first one, in sheet order, whose title contains
\* the record's last name.  That is a sheet of the record's student when no
\* sheet of another student with such a title comes before them; when one
\* does, the record is written into that other student's sheet and the
\* student's own sheet stays as it is.
C29_OwnSheetUnlessEarlierTitle ==
    [][ (mpc = "records" /\ OwnSheets(base_wb, merge_student[1]) # {}) =>
          LET titled == TitledFor(base_wb, merge_student[1])
              own == OwnSheets(base_wb, merge_student[1])
              changed == {i \in 1..Len(base_wb) : base_wb'[i] # base_wb[i]}
          IN  /\ \A i \in changed : i \in titled /\ \A j \in titled : i <= j
              /\ (\A j \in titled : \E k \in own : k <= j) => changed \subseteq own
              /\ (\E j \in titled \ own : \A k \in own : j < k) => changed \cap own = {}
      ]_vars

\* the grades of the student named A are in the sheet made for the student
\* named AB, and the sheet made for A is as it was uploaded
C29_Witness ==
    /\ mpc \in {"records", "pairs"}
    /\ existing_sf10 # <<>>
    /\ Len(grading_files) = 1
    /\ base_wb[1].cells[<<9, 5>>] = Str(<<"A", "B">>)
    /\ base_wb[2].cells[<<9, 5>>] = Str(<<"A">>)
    /\ base_wb[2] = existing_sf10[1][2]
    /\ \E stu \in MergeStudents(Head(grading_files)) :
          /\ stu.name = <<"A", ",", "x">>
          /\ base_wb[1].cells[<<FormRow("MATH"), FormColumn(Head(grading_files))>>]
                 = stu.grades["MATH"]

\* C5 as the claim states it: a write that raises for one record never ends
\* the merge; the student loop is never left by an exception.
C5_RaisingWriteSkipped == ~(mpc = "raised" /\ merge_student # <<>>)

----------------------------------------------------------------------------
(* Properties of the structure detector (SpecDetect) *)

\* the cell holds text that contains one of the subject words, in any case
NamesSubject(v) ==
    /\ v.k = "str"
    /\ \E word \in SubjectWords : Contains(Lower(v.s), word)

\* the three checks that do not look at cell (9, 5)
OtherChecks(file) ==
    /\ Len(file.wb) >= 20
    /\ \E r \in {30, 31, 32} : NamesSubject(file.wb[1].cells[<<r, 2>>])
    /\ file.wb[1].merged > 100

C7_GeneratedIsDetected == (origin = "generated" /\ verdict # "none") => verdict = "sf10"

----------------------------------------------------------------------------
(* Properties of the grade sheet parser (SpecParse) *)

\* the text of a name cell that is not empty
NameText(v) == IF v.k = "num" THEN Digits(v.n) ELSE v.s

ReservedLabels == {Txt_MALE, Txt_FEMALE, Txt_LEARNERS_NAMES}

\* the 1-based positions of the rows with 0-based index 10 or more whose name
\* cell is not empty and, trimmed, is no reserved label
NamedRows ==
    {i \in 11..Len(grid.rows) :
        /\ grid.rows[i].name # None
        /\ grid.rows[i].name # Str(<<>>)
        /\ Trimmed(NameText(grid.rows[i].name)) \notin ReservedLabels}

\* ... and, trimmed, is not empty either
StudentRows == {i \in NamedRows : Trimmed(NameText(grid.rows[i].name)) # <<>>}

\* the k-th smallest member of a set of positions
Kth(S, k) == CHOOSE i \in S : Cardinality({j \in S : j <= i}) = k

\* the list has one record per row of S, in sheet order, under the row's
\* trimmed name, with the five subject keys
OneRecordPerRow(S) ==
    /\ Len(students) = Cardinality(S)
    /\ \A k \in 1..Len(students) :
          /\ students[k].name = Trimmed(NameText(grid.rows[Kth(S, k)].name))
          /\ DOMAIN students[k].grades = SummarySubjects

\* C11 as the claim states it: one record for each row with index 10 or more
\* whose name cell is non-empty and whose trimmed value is no reserved label,
\* in sheet order, duplicates kept, blank rows skipped; every record has a
\* non-empty name and the five subject keys.
C11_OnePerNamedRow ==
    rpc = "returned" =>
        /\ OneRecordPerRow(NamedRows)
        /\ \A k \in 1..Len(students) : students[k].name # <<>>

\* C11 as the code has it: one record for each row with index 10 or more
\* whose name cell is non-empty and whose trimmed value is neither empty nor a
\* reserved label, in sheet order, duplicates kept, blank rows skipped; every
\* record has a non-empty name and the five subject keys. The call raises
\* only for a grid without column 1 that has more than 10 rows.
C11_OnePerStudentRow ==
    /\ rpc = "returned" =>
         /\ OneRecordPerRow(StudentRows)
         /\ \A k \in 1..Len(students) : students[k].name # <<>>
    /\ rpc = "raised" <=> (rpc # "start" /\ grid.width < 2 /\ Len(grid.rows) > 10)

\* two rows with the same name after a blank row give two records
C11_Witness ==
    /\ rpc = "returned"
    /\ Len(grid.rows) = 13
    /\ grid.rows[11].name = None
    /\ grid.rows[12].name = Str(<<"B">>)
    /\ grid.rows[13].name = Str(<<"B">>)
    /\ Len(students) = 2
    /\ grid.rows[1].name = Str(<<"H">>)

\* the cell of column col of the row at position i, <<>> when the grid has no
\* such column
CellAt(i, col) == IF col < grid.width THEN <<grid.rows[i].grades[col - 4]>> ELSE <<>>

SubjectColumn(sub) ==
    CASE sub = "LANGUAGE" -> 5 [] sub = "READING AND LITERACY" -> 6 [] sub = "MATH" -> 7
      [] sub = "GMRC" -> 8 [] sub = "MAKABANSA" -> 9

\* C12: each subject score of a student row is the value of its column 5..9
\* when the column exists and holds a value, and 0 when the column is absent
\* or holds a missing value; reading the grades never raises.
C12_GradesOrZero ==
    /\ rpc = "returned" =>
         \A k \in 1..Len(students) : \A sub \in SummarySubjects :
            LET cell == CellAt(Kth(StudentRows, k), SubjectColumn(sub))
            IN  students[k].grades[sub] =
                   (IF cell # <<>> /\ cell[1] # None THEN cell[1] ELSE Num(0))
    /\ rpc = "raised" => grid.width < 2

\* a grid of six columns and a row with missing values: the first grade is
\* read, the missing value and the absent columns give 0
C12_Witness ==
    /\ rpc = "returned"
    /\ grid.width = 6
    /\ Len(students) = 2
    /\ students[1].grades["LANGUAGE"] = Num(80)
    /\ students[1].grades["MATH"] = Num(0)
    /\ students[2].grades["LANGUAGE"] = Num(81)
    /\ students[2].grades["READING AND LITERACY"] = Num(0)

----------------------------------------------------------------------------
(* Properties of the per-student file generator (SpecAll) *)

\* the saved sheet holds the record's three name parts and its five grades in
\* quarter q's column only
HoldsStudent(sheet, stu, q) ==
    /\ HoldsText(sheet.cells[<<9, 5>>], Trimmed(FieldText(stu.name, 0)))
    /\ HoldsText(sheet.cells[<<9, 17>>], Trimmed(FieldText(stu.name, 1)))
    /\ HoldsText(sheet.cells[<<9, 42>>], Trimmed(FieldText(stu.name, 2)))
    /\ \A sub \in SummarySubjects :
          /\ sheet.cells[<<FormRow(sub), FormColumn(q)>>] = stu.grades[sub]
          /\ \A o \in (1..4) \ {q} : sheet.cells[<<FormRow(sub), FormColumn(o)>>] = None

\* C13 as the claim states it: for N student records and a valid template,
\* generate_all_sf10s leaves exactly N output files, one per record, each with
\* that student's names and grades in the quarter's column only.
C13_OneFilePerStudent ==
    (apc = "done" /\ template.readonly = {} /\ learners_profile_data = NoProfiles) =>
        /\ Len(generated_files) = Len(batch)
        /\ Cardinality(DOMAIN out_dir) = Len(batch)
        /\ \A i \in 1..Len(batch) :
              \E f \in DOMAIN out_dir : HoldsStudent(out_dir[f], batch[i], quarter)

\* generate_sf10_for_student raises for the i-th student of the batch
GenerationRaises(i) ==
    ~Populate([ws |-> template, ok |-> TRUE], batch[i], quarter, learners_profile_data).ok

\* the positions of the batch whose generation does not raise, in batch order
RECURSIVE NonRaising(_)
NonRaising(i) ==
    IF i > Len(batch) THEN <<>>
    ELSE (IF GenerationRaises(i) THEN <<>> ELSE <<i>>) \o NonRaising(i + 1)

\* C25: when the generation of one student raises, the students after it are
\* still processed: the returned list holds exactly the output paths of the
\* students whose generation did not raise, in batch order, and each of these
\* paths holds a file.
C25_RaisingStudentSkipped ==
    apc = "done" =>
        LET kept == NonRaising(1)
        IN  /\ Len(generated_files) = Len(kept)
            /\ \A k \in 1..Len(kept) :
                  /\ generated_files[k] = OutputFilename(batch[kept[k]].name)
                  /\ generated_files[k] \in DOMAIN out_dir
            /\ DOMAIN out_dir = {generated_files[k] : k \in 1..Len(kept)}
            /\ Len(failed) = Len(batch) - Len(kept)

\* the first of two students raised and the second one's file was generated
C25_Witness ==
    /\ apc = "done"
    /\ Len(batch) = 2
    /\ GenerationRaises(1)
    /\ ~GenerationRaises(2)
    /\ generated_files = <<OutputFilename(batch[2].name)>>
    /\ HoldsStudent(out_dir[generated_files[1]], batch[2], quarter)

----------------------------------------------------------------------------
(* Properties of the single workbook (SpecBook) *)

\* the student's processing raises: its normalised name is a key of the
\* profile mapping and the profile's LRN is a text that is no number
ProcessingRaises(stu, profiles) ==
    \E key \in DOMAIN profiles :
        /\ key = _normalize_name(stu.name)
        /\ profiles[key].LRN.k = "str"

\* the sheet holds the student's names and grades in every cell that is not
\* covered by a merged range (a covered cell reads back empty)
HoldsStudentUncovered(sheet, stu, q) ==
    /\ HoldsText(sheet.cells[<<9, 5>>], Trimmed(FieldText(stu.name, 0)))
    /\ HoldsText(sheet.cells[<<9, 17>>], Trimmed(FieldText(stu.name, 1)))
    /\ HoldsText(sheet.cells[<<9, 42>>], Trimmed(FieldText(stu.name, 2)))
    /\ \A sub \in SummarySubjects :
          /\ sheet.cells[<<FormRow(sub), FormColumn(q)>>] =
                IF <<FormRow(sub), FormColumn(q)>> \in sheet.covered
                THEN None ELSE stu.grades[sub]
          /\ \A o \in (1..4) \ {q} : sheet.cells[<<FormRow(sub), FormColumn(o)>>] = None

C26_RaisingStudentOmitted ==
    bpc = "done" =>
        LET succeeded == {i \in 1..Len(book_students) :
                            ~ProcessingRaises(book_students[i], learners_profile_data)}
        IN  /\ Len(sheetnames(book[1])) = Cardinality(succeeded)
            /\ \A i \in 1..Len(book_students) :
                  ProcessingRaises(book_students[i], learners_profile_data) =>
                      \A k \in 1..Len(book[1]) :
                          ~HoldsText(book[1][k].cells[<<9, 5>>],
                                     Trimmed(FieldText(book_students[i].name, 0)))

FirstChars(t, n) == SubSeq(t, 1, IF Len(t) < n THEN Len(t) ELSE n)

\* the first 15 characters of the last name, a blank and the first 10
\* characters of the first name, trimmed, without the characters : \ / ? * [ ]
TitleText(name) ==
    LET joined == Trimmed(FirstChars(Trimmed(FieldText(name, 0)), 15) \o <<" ">>
                              \o FirstChars(Trimmed(FieldText(name, 1)), 10))
    IN  SelectSeq(joined, LAMBDA c : c \notin {":", "\\", "/", "?", "*", "[", "]"})

\* C15 as the claim states it: every sheet title of the single workbook is
\* non-empty, at most 31 characters long, free of the characters : \ / ? * [ ]
\* and built from at most the first 15 characters of the last name and the
\* first 10 characters of the first name (it starts with that text).
C15_TitlesWellFormed ==
    bpc = "done" =>
        \A i \in 1..Len(book[1]) :
            LET title == book[1][i].title
                text == TitleText(book_students[i].name)
            IN  /\ title # <<>>
                /\ Len(title) <= 31
                /\ \A k \in 1..Len(title) : title[k] \notin {":", "\\", "/", "?", "*", "[", "]"}
                /\ Len(text) <= Len(title)
                /\ SubSeq(title, 1, Len(text)) = text


\* C16 as the claim states it: the media parts of the workbook produced by
\* generate_single_workbook_all_students are the media parts of the template
\* archive, each under the same part name, and no other.
C16_MediaPartsKept == bpc = "done" => out_media = tmpl_media

----------------------------------------------------------------------------
(* Properties of the profile step (SpecGen) *)

\* C17: when the normalised name of the student is not a key of the profile
\* mapping, generate_sf10_for_student raises no error on a template whose
\* cells can all be written, the three profile cells (10,10), (10,21) and
\* (10,45) of the output hold what the template held, and the names and the
\* grades are written.
C17_NoProfileLeavesCells ==
    _normalize_name(student.name) \notin DOMAIN learners_profile_data =>
        /\ gpc = "done" =>
             /\ \A co \in {<<10, 10>>, <<10, 21>>, <<10, 45>>} :
                   outfile[1].cells[co] = template.cells[co]
             /\ HoldsStudent(outfile[1], student, quarter)
        /\ template.readonly = {} => gpc # "raised"

\* a student without a profile, among profiles of other students, has been
\* written to a template whose profile cells held values
C17_Witness ==
    /\ gpc = "done"
    /\ learners_profile_data # NoProfiles
    /\ student.name = <<"A", ",", "A">>
    /\ _normalize_name(student.name) \notin DOMAIN learners_profile_data
    /\ outfile[1].cells[<<10, 10>>] = Num(7)
    /\ outfile[1].cells[<<9, 17>>] = Str(<<"A">>)

----------------------------------------------------------------------------
(* Properties of the quarter identification (SpecQuarter) *)

\* the text occurs in the lower-cased file name
Occurs(token, name) ==
    \E i \in 1..Len(name) :
        /\ i + Len(token) - 1 <= Len(name)
        /\ SubSeq(Lower(name), i, i + Len(token) - 1) = token

Ordinal(q) == CASE q = 1 -> Txt_1st [] q = 2 -> Txt_2nd [] q = 3 -> Txt_3rd [] q = 4 -> Txt_4th

Word(q) == CASE q = 1 -> Txt_first [] q = 2 -> Txt_second [] q = 3 -> Txt_third [] q = 4 -> Txt_fourth

DigitBlank(q) == <<Ordinal(q)[1], " ">>

\* C19 as the claim states it: identify_quarter_from_filename returns q
\* exactly when the lower-cased file name contains the ordinal or the word of
\* quarter q, and None when it contains none of the eight tokens.
C19_OrdinalOrWord ==
    qpc = "returned" =>
        /\ \A q \in 1..4 :
              identified = Num(q) <=> (Occurs(Ordinal(q), filename) \/ Occurs(Word(q), filename))
        /\ identified = None <=>
              \A q \in 1..4 : ~Occurs(Ordinal(q), filename) /\ ~Occurs(Word(q), filename)

\* the file name names quarter q: by its ordinal, by its digit followed by a
\* blank, or by its word
NamesQuarter(q, name) ==
    Occurs(Ordinal(q), name) \/ Occurs(DigitBlank(q), name) \/ Occurs(Word(q), name)

\* C19: identify_quarter_from_filename returns the least q of 1..4 whose
\* ordinal ('1st', ...), digit followed by a blank ('1 ', ...) or word
\* ('first', ...) occurs in the lower-cased file name, and None when none of
\* these twelve tokens occurs.
C19_LeastNamedQuarter ==
    qpc = "returned" =>
        /\ \A q \in 1..4 :
              identified = Num(q) <=>
                  /\ NamesQuarter(q, filename)
                  /\ \A o \in 1..(q - 1) : ~NamesQuarter(o, filename)
        /\ identified = None <=> \A q \in 1..4 : ~NamesQuarter(q, filename)

\* a name that holds the digit 2 before a blank and none of the ordinals and
\* words has been identified as quarter 2
C19_Witness ==
    /\ qpc = "returned"
    /\ filename = <<"2", " ">>
    /\ identified = Num(2)


----------------------------------------------------------------------------
(* Properties of the upload handler (SpecUpload) *)

\* the uploaded file is neither an existing SF10 for is_sf10_file nor named
\* with a quarter token
Unclassifiable(file) ==
    /\ file.filename # <<>>
    /\ ~is_sf10_file(file.content)
    /\ identify_quarter_from_filename(secure_filename(file.filename)) = None

\* C18 as the claim states it: whenever an uploaded file is neither classified
\* as an existing SF10 nor carries a quarter token in its file name, the
\* handler answers with an error that names such a file, runs no merge and
\* produces no output workbook, whatever the other files are.
C18_UnclassifiableRejected ==
    (upc = "answered" /\ \E i \in 1..Len(uploads) : Unclassifiable(uploads[i])) =>
        /\ response.status = 400
        /\ response.error = "Could not identify file type"
        /\ response.file # <<>>
        /\ \E i \in 1..Len(uploads) :
              /\ Unclassifiable(uploads[i])
              /\ response.file = secure_filename(uploads[i].filename)
        /\ merge_calls = <<>>

\* the quarters of the grading sheets of a request, in upload order
RECURSIVE UploadedQuarters(_)
UploadedQuarters(files) ==
    IF files = <<>> THEN <<>>
    ELSE LET f == Head(files)
             q == identify_quarter_from_filename(secure_filename(f.filename))
         IN  (IF f.filename # <<>> /\ ~is_sf10_file(f.content) /\ q # None
              THEN <<q.n>> ELSE <<>>) \o UploadedQuarters(Tail(files))

\* C23: whatever the upload order, the pairs handed to the merge engine are
\* the uploaded grading sheets in non-decreasing quarter order, so the first
\* pair, from which the base workbook is created when no existing workbook is
\* supplied, has the lowest quarter.
C23_PairsSortedByQuarter ==
    \A c \in 1..Len(merge_calls) :
        LET pairs == merge_calls[c].grading_files
            given == UploadedQuarters(uploads)
        IN  /\ \A i \in 1..(Len(pairs) - 1) : pairs[i][2] <= pairs[i + 1][2]
            /\ Len(pairs) = Len(given)
            /\ \A q \in 1..4 :
                  Cardinality({i \in 1..Len(pairs) : pairs[i][2] = q})
                      = Cardinality({i \in 1..Len(given) : given[i] = q})
            /\ \A i \in 1..Len(given) : pairs[1][2] <= given[i]

\* the quarter-2 sheet was uploaded before the quarter-1 sheet, no existing
\* workbook was uploaded, and the merge engine was called with quarter 1 first
C23_Witness ==
    /\ upc = "answered"
    /\ Len(merge_calls) = 1
    /\ merge_calls[1].existing_sf10 = <<>>
    /\ UploadedQuarters(uploads) = <<2, 1>>
    /\ merge_calls[1].grading_files[1][2] = 1

----------------------------------------------------------------------------
(* Properties of the files on disk (SpecFiles) *)

\* C27: none of generate_sf10_for_student, generate_single_workbook_all_students
\* and merge_quarters_into_sf10 changes the template file or the supplied
\* existing workbook: after the operation both hold what they held before, no
\* file is removed, and the only path that is created or changed is the
\* output path of the call.
C27_OnlyOutputPathWritten ==
    [][/\ disk'[TEMPLATE_PATH] = disk[TEMPLATE_PATH]
       /\ call.existing # <<>> => disk'[ExistingPathOf(call)] = disk[ExistingPathOf(call)]
       /\ DOMAIN disk \subseteq DOMAIN disk'
       /\ \A p \in DOMAIN disk' :
             (p \notin DOMAIN disk \/ disk'[p] # disk[p]) => p = OutputPathOf(call)]_vars

\* a merge over an uploaded workbook has returned: the output path holds a
\* workbook that differs from the uploaded one, which is still on disk
C27_Witness ==
    /\ fpc = "done"
    /\ call.op = "merge_quarters_into_sf10"
    /\ call.existing # <<>>
    /\ OutputPathOf(call) \in DOMAIN disk
    /\ disk[OutputPathOf(call)] # disk[ExistingPathOf(call)]
    /\ disk[TEMPLATE_PATH] = <<template>>

----------------------------------------------------------------------------
(* Properties of concurrent requests (SpecRequests) *)

\* C28 as the claim states it: two requests that are being handled at the
\* same time never read or write the same file path: the paths one of them
\* has used for its uploaded files and its output workbook are used by no
\* other request that is not yet answered.
C28_RequestsIsolated ==
    \A i \in DOMAIN inflight : \A j \in DOMAIN inflight :
        (i # j /\ inflight[i].pc # "answered" /\ inflight[j].pc # "answered") =>
            inflight[i].touched \cap inflight[j].touched = {}

----------------------------------------------------------------------------
(* Properties of sheet creation and search (SpecTitle) *)

\* C30 as the claim states it: the title of the sheet created for a student
\* always passes the match test of a later merge step for the same name, so
\* the student's sheet is found again.
C30_SheetFoundAgain == tpc = "done" => found

====
